---- MODULE Spec2Model ----
(***************************************************************************)
(* A model of shillelagh-gristapi's response cache and HTTP client:        *)
(*   cache.py  MemoryCache, SQLiteCache, _key_to_text                      *)
(*   http.py   _freeze, GristClient._make_key and the client operations    *)
(*                                                                         *)
(* Python values are modelled structurally (records tagged with their      *)
(* Python type), JSON text as a sequence of tokens, the wall clock         *)
(* (time.time()) as a counter that never goes back and that several        *)
(* operations may read at the same value.                                  *)
(***************************************************************************)
EXTENDS Integers, Sequences, FiniteSets, TLC

(***************************************************************************)
(* Bounds of the model.                                                    *)
(***************************************************************************)
MaxTime == 2        \* the clock runs over 0..MaxTime
MaxGets == 1        \* cap on hits + misses of a store used on its own
MaxLookups == 2     \* cap on hits + misses of a client's store
MaxPairs == 3       \* the largest number of pairs in a mapping given to _make_key
MaxElems == 3       \* the largest number of elements in a collection given to _make_key
MaxCalls == 4       \* the number of calls made on two stores driven in step

(***************************************************************************)
(* Python values.                                                          *)
(***************************************************************************)
PyNone == [t |-> "none", v |-> <<>>]
PyObject == [t |-> "object", v |-> <<>>]
PyBool(b) == [t |-> "bool", v |-> <<b>>]
PyInt(n) == [t |-> "int", v |-> <<n>>]
PyStr(s) == [t |-> "str", v |-> <<s>>]
PyList(xs) == [t |-> "list", v |-> xs]
PyTuple(xs) == [t |-> "tuple", v |-> xs]
\* a set: its elements in the order iteration yields them
PySet(xs) == [t |-> "set", v |-> xs]
\* a mapping: its (key, value) pairs in insertion order
PyDict(items) == [t |-> "dict", v |-> items]

IsSeqType(x) == x.t \in {"list", "tuple"}

\* isinstance(value, (list, tuple, set)), and a variant without set
Iterable_NoSet(x) == x.t \in {"list", "tuple"}
Iterable(x) == x.t \in {"list", "tuple", "set"}


(***************************************************************************)
(* Generic helpers on sequences.                                           *)
(***************************************************************************)
RECURSIVE Concat(_)
Concat(ss) == IF ss = <<>> THEN <<>> ELSE Head(ss) \o Concat(Tail(ss))

RECURSIVE Join(_, _)
Join(ss, sep) ==
    IF ss = <<>> THEN <<>>
    ELSE IF Len(ss) = 1 THEN Head(ss)
    ELSE Head(ss) \o sep \o Join(Tail(ss), sep)

Range(s) == {s[i] : i \in 1..Len(s)}
IndexOf(s, x) == IF x \in Range(s) THEN CHOOSE i \in 1..Len(s) : s[i] = x ELSE 0
Min(a, b) == IF a <= b THEN a ELSE b

(***************************************************************************)
(* The order Python gives the strings the model uses as mapping keys       *)
(* (str.__lt__, by code point): the strings in ascending order.            *)
(***************************************************************************)
StrOrder == <<"a", "b", "c", "filter", "hidden", "limit", "sort">>
StrLess(x, y) == IndexOf(StrOrder, x) < IndexOf(StrOrder, y)

(***************************************************************************)
(* http.py _freeze: a mapping becomes the tuple of its (key, frozen value) *)
(* pairs sorted by key; a list, tuple or set becomes the tuple of its      *)
(* frozen elements in iteration order; anything else is returned as it is. *)
(***************************************************************************)
\* sorted() on (key, value) tuples of a mapping: the keys are distinct, so the
\* first component decides every comparison
RECURSIVE InsertPair(_, _)
InsertPair(sorted, p) ==
    IF sorted = <<>> THEN <<p>>
    ELSE IF StrLess(p[1].v[1], Head(sorted)[1].v[1]) THEN <<p>> \o sorted
    ELSE <<Head(sorted)>> \o InsertPair(Tail(sorted), p)

\* a variant that leaves the pairs in insertion order
SortedPairs_Unsorted(items) == items

RECURSIVE SortedPairs(_)
SortedPairs(items) ==
    IF items = <<>> THEN <<>>
    ELSE InsertPair(SortedPairs(SubSeq(items, 1, Len(items) - 1)), items[Len(items)])

RECURSIVE _freeze(_)
_freeze(value) ==
    IF value.t = "dict"
    THEN LET frozen == [i \in 1..Len(value.v) |->
                           <<value.v[i][1], _freeze(value.v[i][2])>>]
             srt == SortedPairs(frozen)
         IN PyTuple([i \in 1..Len(srt) |-> PyTuple(<<srt[i][1], srt[i][2]>>)])
    ELSE IF Iterable(value)
    THEN PyTuple([i \in 1..Len(value.v) |-> _freeze(value.v[i])])
    ELSE value

\* GristClient._make_key(name, *parts)
_make_key(name, parts) ==
    PyTuple(<<PyStr(name), PyTuple([i \in 1..Len(parts) |-> _freeze(parts[i])])>>)

(***************************************************************************)
(* json.dumps: the text as a sequence of tokens. Lists and tuples are both *)
(* written as arrays, mapping keys are written as strings, and a value of  *)
(* any other type raises TypeError (Serializable is FALSE).                *)
(***************************************************************************)
RECURSIVE Serializable(_)
Serializable(x) ==
    CASE x.t \in {"none", "bool", "int", "str"} -> TRUE
      [] IsSeqType(x) -> \A i \in 1..Len(x.v) : Serializable(x.v[i])
      [] x.t = "dict" -> \A i \in 1..Len(x.v) :
                            /\ x.v[i][1].t \in {"str", "int"}
                            /\ Serializable(x.v[i][2])
      [] OTHER -> FALSE

Quoted(s) == <<"\"", s, "\"">>

RECURSIVE JsonDumps(_)
JsonDumps(x) ==
    CASE x.t = "none" -> <<"null">>
      [] x.t = "bool" -> <<IF x.v[1] THEN "true" ELSE "false">>
      [] x.t = "int" -> <<ToString(x.v[1])>>
      [] x.t = "str" -> Quoted(x.v[1])
      [] IsSeqType(x) ->
            <<"[">> \o Join([i \in 1..Len(x.v) |-> JsonDumps(x.v[i])], <<",">>) \o <<"]">>
      [] x.t = "dict" ->
            <<"{">>
            \o Join([i \in 1..Len(x.v) |->
                        (IF x.v[i][1].t = "int"
                         THEN Quoted(ToString(x.v[i][1].v[1]))
                         ELSE Quoted(x.v[i][1].v[1]))
                        \o <<":">> \o JsonDumps(x.v[i][2])], <<",">>)
            \o <<"}">>

\* cache.py _key_to_text(key): json.dumps([name, parts])
_key_to_text(key) == JsonDumps(PyList(<<key.v[1], key.v[2]>>))

(***************************************************************************)
(* json.loads on a token sequence: a recursive-descent parse. The result   *)
(* is [ok, val, next]; ok = FALSE is JSONDecodeError. Arrays decode to     *)
(* lists, object keys to strings.                                          *)
(***************************************************************************)
JsonInts == 0..9
IntToken == [n \in JsonInts |-> ToString(n)]
ParseFail == [ok |-> FALSE, val |-> PyNone, next |-> 0]
Parsed(val, next) == [ok |-> TRUE, val |-> val, next |-> next]
Tok(toks, i) == IF i \in 1..Len(toks) THEN toks[i] ELSE "<eof>"

RECURSIVE ParseValue(_, _), ParseItems(_, _, _), ParseMembers(_, _, _)
ParseValue(toks, i) ==
    LET tk == Tok(toks, i) IN
    CASE tk = "\"" /\ Tok(toks, i + 2) = "\"" ->
            Parsed(PyStr(Tok(toks, i + 1)), i + 3)
      [] tk = "[" ->
            IF Tok(toks, i + 1) = "]" THEN Parsed(PyList(<<>>), i + 2)
            ELSE ParseItems(toks, i + 1, <<>>)
      [] tk = "{" ->
            IF Tok(toks, i + 1) = "}" THEN Parsed(PyDict(<<>>), i + 2)
            ELSE ParseMembers(toks, i + 1, <<>>)
      [] tk = "null" -> Parsed(PyNone, i + 1)
      [] tk \in {"true", "false"} -> Parsed(PyBool(tk = "true"), i + 1)
      [] \E n \in JsonInts : IntToken[n] = tk ->
            Parsed(PyInt(CHOOSE n \in JsonInts : IntToken[n] = tk), i + 1)
      [] OTHER -> ParseFail

\* the elements of an array, from the first token of an element
ParseItems(toks, i, acc) ==
    LET e == ParseValue(toks, i) IN
    IF ~e.ok THEN ParseFail
    ELSE IF Tok(toks, e.next) = "," THEN ParseItems(toks, e.next + 1, Append(acc, e.val))
    ELSE IF Tok(toks, e.next) = "]" THEN Parsed(PyList(Append(acc, e.val)), e.next + 1)
    ELSE ParseFail

\* the members of an object, from the first token of a member
ParseMembers(toks, i, acc) ==
    IF ~(Tok(toks, i) = "\"" /\ Tok(toks, i + 2) = "\"" /\ Tok(toks, i + 3) = ":")
    THEN ParseFail
    ELSE LET k == PyStr(Tok(toks, i + 1))
             e == ParseValue(toks, i + 4)
         IN IF ~e.ok THEN ParseFail
            ELSE IF Tok(toks, e.next) = ","
            THEN ParseMembers(toks, e.next + 1, Append(acc, <<k, e.val>>))
            ELSE IF Tok(toks, e.next) = "}"
            THEN Parsed(PyDict(Append(acc, <<k, e.val>>)), e.next + 1)
            ELSE ParseFail

\* json.loads(text): the whole text must be one value
JsonLoads(text) ==
    LET r == ParseValue(text, 1) IN
    IF r.ok /\ r.next = Len(text) + 1 THEN r ELSE ParseFail

(***************************************************************************)
(* Mappings, and the query parameters of iter_records.                     *)
(***************************************************************************)
\* A mapping from its (key, value) pairs, the keys given as strings
Dict(pairs) == PyDict([i \in 1..Len(pairs) |-> <<PyStr(pairs[i][1]), pairs[i][2]>>])

\* dict.get(k, default), `k in d`, d[k] = v, dict.setdefault(k, v)
DictHas(d, k) == \E i \in 1..Len(d.v) : d.v[i][1] = PyStr(k)
DictGet(d, k, default) ==
    IF DictHas(d, k) THEN d.v[CHOOSE i \in 1..Len(d.v) : d.v[i][1] = PyStr(k)][2]
    ELSE default
DictSet(d, k, value) ==
    IF DictHas(d, k)
    THEN PyDict([i \in 1..Len(d.v) |->
                    IF d.v[i][1] = PyStr(k) THEN <<PyStr(k), value>> ELSE d.v[i]])
    ELSE PyDict(Append(d.v, <<PyStr(k), value>>))
SetDefault(d, k, value) == IF DictHas(d, k) THEN d ELSE DictSet(d, k, value)

\* bool(x)
Truthy(x) ==
    CASE x.t = "none" -> FALSE
      [] x.t = "bool" -> x.v[1]
      [] x.t = "int" -> x.v[1] # 0
      [] x.t = "str" -> x.v[1] # ""
      [] x.t \in {"list", "tuple", "set", "dict"} -> x.v # <<>>
      [] OTHER -> TRUE

\* `x or default`
Or(x, default) == IF Truthy(x) THEN x ELSE default

\* a str holding the JSON text `toks`
JsonStr(toks) == PyStr(ToString(toks))

\* the sort strings of the model that mention manualSort
\* (`"manualSort" in str(q.get("sort", ""))`)
MentionsManualSort(x) == x \in {PyStr("manualSort"), PyStr("manualSort,id")}

\* iter_records, http.py 329-346: the query parameters the cache key is derived
\* from
\* q = {}; if params: q.update(params)
QueryOf(params) == IF Truthy(params) THEN params ELSE PyDict(<<>>)

\* q.setdefault("sort", "id")
WithSort(q) == SetDefault(q, "sort", PyStr("id"))

\* if isinstance(filt, Mapping): q["filter"] = json.dumps(dict(filt))
FilterAsText(q, filt) ==
    IF filt.t = "dict" THEN DictSet(q, "filter", JsonStr(JsonDumps(filt))) ELSE q
WithFilter(q) == FilterAsText(q, DictGet(q, "filter", PyNone))

\* if "manualSort" in str(q.get("sort", "")) and "hidden" not in q: q["hidden"] = True
WithHidden(q) ==
    IF MentionsManualSort(DictGet(q, "sort", PyStr(""))) /\ ~DictHas(q, "hidden")
    THEN DictSet(q, "hidden", PyBool(TRUE)) ELSE q

\* q.setdefault("limit", 0)
WithLimit(q) == SetDefault(q, "limit", PyInt(0))

RecordsQuery(params) == WithLimit(WithHidden(WithFilter(WithSort(QueryOf(params)))))

\* the `hidden` request parameter of list_columns and iter_records
HiddenParam(hidden) == PyStr(IF hidden THEN "true" ELSE "false")

\* iter_records, http.py 356-361: the query parameters of the request
RecordsRequest(params, hidden) ==
    DictSet(RecordsQuery(params), "hidden", HiddenParam(hidden))

\* a variant that leaves the query parameters out of the key
RecordsKey_NoQuery(doc_id, table_id, params) ==
    _make_key("iter_records", <<doc_id, table_id>>)

\* the cache key of iter_records (http.py 349)
RecordsKey(doc_id, table_id, params) ==
    _make_key("iter_records", <<doc_id, table_id, RecordsQuery(params)>>)

(***************************************************************************)
(* The arguments the client's operations are called with, and the cache    *)
(* keys they derive.                                                       *)
(***************************************************************************)
OrgIds == {PyInt(1)}
WsIds == {PyInt(1)}
DocIds == {PyStr("D1")}
TableIds == {PyStr("T1")}
\* the `params` argument of iter_records
Params == {PyNone, Dict(<< <<"limit", PyInt(1)>> >>)}

ClientKeys ==
    {_make_key("list_orgs", <<>>)}
    \cup {_make_key("list_workspaces", <<org_id>>) : org_id \in OrgIds}
    \cup {_make_key("list_docs", <<org_id, ws_id>>) : org_id \in OrgIds, ws_id \in WsIds}
    \cup {_make_key("list_tables", <<doc_id>>) : doc_id \in DocIds}
    \cup {_make_key("list_columns", <<doc_id, table_id>>) :
                doc_id \in DocIds, table_id \in TableIds}
    \cup {RecordsKey(doc_id, table_id, params) :
                doc_id \in DocIds, table_id \in TableIds, params \in Params}

\* _key_to_text(key), worked out once for each of these keys
KeyText == [key \in ClientKeys |-> _key_to_text(key)]
TextOf(key) == IF key \in DOMAIN KeyText THEN KeyText[key] ELSE _key_to_text(key)

(***************************************************************************)
(* State.                                                                  *)
(*   now      the wall clock, time.time()                                  *)
(*   backend  "memory" (MemoryCache) or "sqlite" (SQLiteCache)             *)
(*   maxsize  the store's _maxsize                                         *)
(*   data     MemoryCache._data: the OrderedDict as the sequence of its    *)
(*            entries, oldest first                                        *)
(*   rows     the rows of SQLiteCache's table `cache`, in rowid order      *)
(*   hits, misses   the store's counters                                   *)
(*   last     the store operation that completed last: its arguments, for  *)
(*            a set `until` = its clock reading + ttl, for a get what it   *)
(*            returned, whether it counted a hit, the age of the entry it  *)
(*            looked up and the operation it came directly after           *)
(*            (history, read only by the properties)                       *)
(*   lru      the stored keys in the order of their last use (a set that   *)
(*            stored, or a get that returned the entry), oldest first      *)
(*            (history)                                                    *)
(*   deadline for each stored key, the clock reading plus the ttl of the   *)
(*            last set that stored it (history)                            *)
(*   cfg      the client's CacheConfig                                     *)
(*   call     the client operation that completed last: its name and       *)
(*            arguments, whether it returned or raised, what it returned,  *)
(*            the number of HTTP requests it issued and how its request    *)
(*            ended ("none": it issued no request)                         *)
(*   derived  two mappings and the cache keys and key texts derived from   *)
(*            them; for two `params` arguments of iter_records also the    *)
(*            `hidden` argument, the normalized query parameters and the   *)
(*            parameters of the request                                    *)
(*   inflight the SQLiteCache.set that has written its row and not yet     *)
(*            pruned, the lock held (NoSet: none)                          *)
(*   twin     for a MemoryCache and a SQLiteCache given the same calls: the *)
(*            counters of the SQLiteCache and what its last call returned  *)
(*            (data, hits, misses and last are the MemoryCache's)          *)
(*   first    the last iter_records call that fetched its rows over HTTP:  *)
(*            its cache key, the rows it yielded and its clock reading     *)
(*            (history)                                                    *)
(*   pool     for threads sharing one client: who holds the store's lock   *)
(*            and where each thread is in its call                         *)
(***************************************************************************)
VARIABLES now, backend, maxsize, data, rows, hits, misses, last, lru, deadline,
          cfg, call, first, derived, inflight, twin, wire, opts, pushed, exec, client,
          origin, pool

storeVars == <<now, backend, maxsize, data, rows, hits, misses, last, lru, deadline>>
clientVars == <<cfg, call, first>>
sideVars == <<wire, opts, pushed, exec, client, origin, pool>>
auxVars == <<derived, inflight, twin, sideVars>>
vars == <<storeVars, clientVars, auxVars>>

\* CacheConfig(): enabled, the ttl of the list_* results and the ttl of the
\* /records results (maxsize and backend are the variables of those names)
CacheConfig == [enabled |-> TRUE, metadata_ttl |-> 300, records_ttl |-> 60]

\* no client call has completed yet / no iter_records call has fetched yet
NoCall == [op |-> "init", args |-> <<>>, outcome |-> "none", result |-> PyNone,
           sent |-> 0, response |-> "none"]
NoFetch == [key |-> PyNone, result |-> PyNone, at |-> 0]
\* no mappings drawn
NoKeys == [m1 |-> PyNone, m2 |-> PyNone, stage |-> "none", key1 |-> PyNone,
           key2 |-> PyNone, text1 |-> <<>>, text2 |-> <<>>,
           hidden |-> TRUE, q1 |-> PyNone, q2 |-> PyNone,
           req1 |-> PyNone, req2 |-> PyNone]

\* no second store
NoTwin == [hits |-> 0, misses |-> 0, ret |-> PyNone]

\* no SQLiteCache.set is between its upsert and its prune
NoSet == [key |-> PyNone, value |-> PyNone, ttl |-> 0]

\* no request is on its way through the session
NoWire == [method |-> "none", arg |-> PyNone, timeout |-> PyNone, attempts |-> 0,
           status |-> 0, slept |-> 0, outcome |-> "idle"]

\* no adapter has been given its URI query and cache_cfg
NoOpts == [query_params |-> PyNone, cache_cfg |-> PyNone, stage |-> "none"]

\* no query has been given to the adapter's get_rows
NoPushed == [bounds |-> PyNone, order |-> <<>>, limit |-> PyNone, stage |-> "none",
             params |-> PyNone, request |-> PyNone, sent |-> 0, exc |-> "none"]

\* no statement is being executed on the SQLiteCache's connection and its
\* lock is free
NoExec == [op |-> "none", path |-> "none", thread |-> 0, holder |-> 0, left |-> 0,
           attempt |-> 0, delay |-> 0, slept |-> 0, error |-> "none",
           counters |-> "untouched", outcome |-> "idle"]

\* a GristClient whose construction is not looked at: `store` is the identity
\* of the object in _cache_backend (0 for None), `made` the number of stores
\* constructed for the client
NoClient == [state |-> "built", path |-> PyNone, store |-> 1, made |-> 1, exc |-> "none"]

\* no result has been fetched: `at` is the clock reading of the request that
\* brought the data stored under each key (history), `age` the time between
\* that request and the return of the last call's result
NoOrigin == [at |-> [k \in ClientKeys |-> 0], age |-> 0]

\* no thread is in a call and the store's lock is free
NoPool == [lock |-> 0, op |-> "none",
           th |-> [t \in {1, 2} |-> [pc |-> "idle", at |-> 0, got |-> PyNone,
                                      result |-> PyNone, hit |-> FALSE]]]

\* nothing but the stores and the client's cache calls is under way
Idle ==
    /\ origin = NoOrigin
    /\ pool = NoPool
    /\ wire = NoWire
    /\ opts = NoOpts
    /\ pushed = NoPushed
    /\ exec = NoExec
    /\ client = NoClient

Threads == {1, 2}
\* the thread that constructed the store: sqlite3.connect(check_same_thread=True)
\* lets only this thread use SQLiteCache._conn
Owner == 1

\* cache keys as the client derives them
KeyA == _make_key("list_orgs", <<>>)
KeyB == _make_key("list_tables", <<PyStr("D1")>>)
KeyC == _make_key("list_columns", <<PyStr("D1"), PyStr("T1")>>)
StoreKeys == {KeyA, KeyB, KeyC}

\* values handed to set: [], () and an object json cannot encode
Values == {PyList(<<>>), PyTuple(<<>>), PyObject}
\* ttl arguments, and the maxsize a store is built with
Ttls == {-1, 0, 1}
Maxsizes == {0, 1, 2}

\* Variants of the definitions below that differ from the code in one place
\* each; a property that constrains the code's behaviour fails when the model
\* uses the variant in place of the definition.
Expired_Inclusive(expires_at, t) == expires_at <= t
TtlCaches_NonNegative(ttl) == ttl >= 0
MoveToEnd_Stay(d, key) == d
RECURSIVE PopWhileOver_OneMore(_, _)
PopWhileOver_OneMore(d, size) ==
    IF Len(d) > size + 1 THEN PopWhileOver_OneMore(Tail(d), size) ELSE d
RECURSIVE PopWhileOver_Newest(_, _)
PopWhileOver_Newest(d, size) ==
    IF Len(d) > size THEN PopWhileOver_Newest(SubSeq(d, 1, Len(d) - 1), size) ELSE d
_prune_if_needed_LastInserted(r, size) == SubSeq(r, 1, Min(Len(r), size))

(***************************************************************************)
(* MemoryCache (cache.py 25-87).                                           *)
(***************************************************************************)
Find(d, key) == IF \E i \in 1..Len(d) : d[i].key = key
                THEN CHOOSE i \in 1..Len(d) : d[i].key = key ELSE 0
RemoveAt(d, i) == SubSeq(d, 1, i - 1) \o SubSeq(d, i + 1, Len(d))

\* `expires_at < now` (cache.py 51, 201)
Expired(expires_at, t) == expires_at < t

\* `if ttl <= 0: return` (cache.py 60, 223)
TtlCaches(ttl) == ttl > 0

\* OrderedDict.move_to_end(key, last=True)
MoveToEnd(d, key) ==
    LET i == Find(d, key) IN IF i = 0 THEN d ELSE Append(RemoveAt(d, i), d[i])

\* `while len(self._data) > self._maxsize: self._data.popitem(last=False)`
RECURSIVE PopWhileOver(_, _)
PopWhileOver(d, size) == IF Len(d) > size THEN PopWhileOver(Tail(d), size) ELSE d

\* Variant of MemoryCache_get: an expired entry is removed but counted a hit
MemoryCache_get_ExpiredHit(d, key, t) ==
    LET i == Find(d, key) IN
    IF i = 0 THEN [data |-> d, ret |-> PyNone, hit |-> FALSE]
    ELSE IF Expired(d[i].expires_at, t)
    THEN [data |-> RemoveAt(d, i), ret |-> PyNone, hit |-> TRUE]
    ELSE [data |-> MoveToEnd(d, key), ret |-> d[i].value, hit |-> TRUE]

\* the locked part of MemoryCache.get, with `now` read before the lock
MemoryCache_get(d, key, t) ==
    LET i == Find(d, key) IN
    IF i = 0 THEN [data |-> d, ret |-> PyNone, hit |-> FALSE]
    ELSE IF Expired(d[i].expires_at, t)
    THEN [data |-> RemoveAt(d, i), ret |-> PyNone, hit |-> FALSE]
    ELSE [data |-> MoveToEnd(d, key), ret |-> d[i].value, hit |-> TRUE]

\* Variant of MemoryCache_set: the entry is added without replacing the one
\* stored under the key
MemoryCache_set_Append(d, key, value, expires_at, size) ==
    PopWhileOver(Append(d, [key |-> key, expires_at |-> expires_at, value |-> value]),
                 size)

\* Variant of MemoryCache_set: an entry that is set again keeps its value
MemoryCache_set_KeepValue(d, key, value, expires_at, size) ==
    LET i == Find(d, key)
        d1 == IF i = 0
              THEN Append(d, [key |-> key, expires_at |-> expires_at, value |-> value])
              ELSE [d EXCEPT ![i].expires_at = expires_at]
    IN PopWhileOver(MoveToEnd(d1, key), size)

\* the locked part of MemoryCache.set
MemoryCache_set(d, key, value, expires_at, size) ==
    LET e == [key |-> key, expires_at |-> expires_at, value |-> value]
        i == Find(d, key)
        d1 == IF i = 0 THEN Append(d, e) ELSE [d EXCEPT ![i] = e]
    IN PopWhileOver(MoveToEnd(d1, key), size)

(***************************************************************************)
(* SQLiteCache (cache.py 95-280).                                          *)
(***************************************************************************)
FindRow(r, key_text) == IF \E i \in 1..Len(r) : r[i].key_text = key_text
                        THEN CHOOSE i \in 1..Len(r) : r[i].key_text = key_text ELSE 0

\* SELECT key_text FROM cache ORDER BY last_access ASC LIMIT n: the positions of
\* the n rows that come first, rows of equal last_access in rowid order
OldestRows(r, n) ==
    {i \in 1..Len(r) :
        Cardinality({j \in 1..Len(r) :
            \/ r[j].last_access < r[i].last_access
            \/ r[j].last_access = r[i].last_access /\ j < i}) < n}

RECURSIVE DeleteRows(_, _, _)
DeleteRows(r, del, i) ==
    IF i > Len(r) THEN <<>>
    ELSE (IF i \in del THEN <<>> ELSE <<r[i]>>) \o DeleteRows(r, del, i + 1)

_prune_if_needed(r, size) ==
    IF Len(r) <= size THEN r
    ELSE DeleteRows(r, OldestRows(r, Len(r) - size), 1)

\* a variant that leaves a corrupt row in the table
Decoded_Keep(touched, i, dec) ==
    IF ~dec.ok THEN [rows |-> touched, ret |-> PyNone, hit |-> FALSE]
    ELSE [rows |-> touched, ret |-> dec.val, hit |-> TRUE]

\* the locked part of SQLiteCache.get
\* value = json.loads(value_json) of the touched row i: a corrupt row is
\* deleted and counts a miss
Decoded(touched, i, dec) ==
    IF ~dec.ok THEN [rows |-> RemoveAt(touched, i), ret |-> PyNone, hit |-> FALSE]
    ELSE [rows |-> touched, ret |-> dec.val, hit |-> TRUE]

\* what get does with the row the SELECT found at position i (0: no row)
Selected(r, i, t) ==
    IF i = 0 THEN [rows |-> r, ret |-> PyNone, hit |-> FALSE]
    ELSE IF Expired(r[i].expires_at, t)
    THEN [rows |-> RemoveAt(r, i), ret |-> PyNone, hit |-> FALSE]
    ELSE Decoded([r EXCEPT ![i].last_access = t], i, JsonLoads(r[i].value_json))

\* Variant of SQLiteCache_get: a hit renews the row's expires_at
SQLiteCache_get_Renews(r, key, t) ==
    LET g == Selected(r, FindRow(r, TextOf(key)), t) IN
    IF g.hit THEN [g EXCEPT !.rows[FindRow(r, TextOf(key))].expires_at = t + 1] ELSE g

SQLiteCache_get(r, key, t) == Selected(r, FindRow(r, TextOf(key)), t)

\* INSERT ... ON CONFLICT(key_text) DO UPDATE ...
Upsert(r, row) ==
    LET i == FindRow(r, row.key_text) IN
    IF i = 0 THEN Append(r, row) ELSE [r EXCEPT ![i] = row]

\* the locked part of SQLiteCache.set, with `now` read before the lock
SQLiteCache_set(r, key, value, t, ttl, size) ==
    _prune_if_needed(
        Upsert(r, [key_text |-> TextOf(key), expires_at |-> t + ttl,
                   last_access |-> t, value_json |-> JsonDumps(value)]),
        size)

(***************************************************************************)
(* The store operations as steps. Every access to the store's state is     *)
(* made under the store's lock (`with self._lock`), so what an operation   *)
(* does to the store is one atomic step. get and set read the clock        *)
(* before they take the lock (cache.py 44, 62, 190, 226): with other       *)
(* threads running between the reading and the lock, a MemoryCache         *)
(* operation acts with a reading `at` taken at any earlier time. A         *)
(* SQLiteCache is usable by the thread that built it only, whose           *)
(* operations run one after the other: each acts with the current clock.   *)
(***************************************************************************)
NoOp == [op |-> "init", key |-> PyNone, value |-> PyNone, ttl |-> 0, until |-> 0,
         ret |-> PyNone, hit |-> FALSE, age |-> "none", after |-> "none",
         exc |-> "none", recovered |-> FALSE]

\* what a get(k) comes directly after: "set" a set(k, _, ttl > 0), "set0" a
\* set(k, _, ttl <= 0), "none" anything else
After(k) ==
    IF last.op = "set" /\ last.key = k /\ last.exc = "none"
    THEN (IF last.ttl > 0 THEN "set" ELSE "set0")
    ELSE "none"

\* the call that completed last was a get(k) that found an unexpired row and
\* missed: the row's text did not decode and the get deleted it
Recovered(k) ==
    last.op = "get" /\ last.key = k /\ ~last.hit /\ last.age \in {"fresh", "due"}

\* how old the entry a get looks up is at the get's clock reading `at`: `exps` is
\* the set of the expires_at stored under the key (empty, or one value)
Age(exps, at) ==
    IF exps = {} THEN "absent"
    ELSE LET e == CHOOSE x \in exps : TRUE IN
         IF e > at THEN "fresh" ELSE IF e = at THEN "due" ELSE "expired"
MemExps(d, k) == {d[i].expires_at : i \in {j \in 1..Len(d) : d[j].key = k}}
SqlExps(r, k) == {r[i].expires_at : i \in {j \in 1..Len(r) : r[j].key_text = TextOf(k)}}

\* the thread may use the SQLite connection, and a variant for a connection
\* opened with check_same_thread=False
MayUseConn_Any(t) == t \in Threads
MayUseConn(t) == t = Owner

Touch(order, key) == Append(SelectSeq(order, LAMBDA k : k # key), key)
Restrict(order, keys) == SelectSeq(order, LAMBDA k : k \in keys)

MemKeys(d) == {d[i].key : i \in 1..Len(d)}
SqlKeys(r) == {k \in StoreKeys : FindRow(r, TextOf(k)) # 0}

NoDeadline == 0 - 1

InitStore ==
    /\ now = 0
    /\ backend \in {"memory", "sqlite"}
    /\ maxsize \in Maxsizes
    /\ data = <<>>
    /\ rows = <<>>
    /\ hits = 0
    /\ misses = 0
    /\ last = NoOp
    /\ lru = <<>>
    /\ deadline = [k \in StoreKeys |-> NoDeadline]
    /\ cfg = CacheConfig
    /\ call = NoCall
    /\ first = NoFetch
    /\ inflight = NoSet
    /\ twin = NoTwin
    /\ Idle
    /\ derived = NoKeys

Tick ==
    /\ now < MaxTime
    /\ now' = now + 1
    /\ UNCHANGED <<backend, maxsize, data, rows, hits, misses, last, lru, deadline, clientVars, auxVars>>

\* the history after a step that leaves the keys `kept` in the store
History(order, dl, kept) ==
    /\ lru' = Restrict(order, kept)
    /\ deadline' = [k \in StoreKeys |-> IF k \in kept THEN dl[k] ELSE NoDeadline]

\* a get(k) with clock reading `at` ends with the result r: the counters, and
\* the history given the keys it leaves stored and the expires_at it found
Got(k, at, r, stored, exps) ==
    /\ hits' = IF r.hit THEN hits + 1 ELSE hits
    /\ misses' = IF r.hit THEN misses ELSE misses + 1
    /\ History(IF r.hit THEN Touch(lru, k) ELSE lru, deadline, stored)
    /\ last' = [NoOp EXCEPT !.op = "get", !.key = k, !.ret = r.ret, !.hit = r.hit,
                            !.age = Age(exps, at), !.after = After(k),
                            !.recovered = After(k) = "set" /\ last.recovered]

MemGot(k, at, r) ==
    /\ data' = r.data
    /\ Got(k, at, r, MemKeys(r.data), MemExps(data, k))

MemGet(k, at) ==
    /\ backend = "memory"
    /\ hits + misses < MaxGets
    /\ at \in 0..now
    /\ MemGot(k, at, MemoryCache_get(data, k, at))
    /\ UNCHANGED <<now, backend, maxsize, rows, clientVars, auxVars>>

SqlGot(k, r) ==
    /\ rows' = r.rows
    /\ Got(k, now, r, SqlKeys(r.rows), SqlExps(rows, k))

\* SQLiteCache.get(k), the store's gets capped at `cap`
SqlGetWithin(k, cap) ==
    /\ backend = "sqlite"
    /\ hits + misses < cap
    /\ SqlGot(k, SQLiteCache_get(rows, k, now))
    /\ UNCHANGED <<now, backend, maxsize, data, clientVars, auxVars>>

SqlGet(k) == SqlGetWithin(k, MaxGets)

\* set returns at once: `if ttl <= 0: return` (cache.py 60-61, 223-224),
\* whatever the value is
SetNoTtl(k, ttl) ==
    /\ ~TtlCaches(ttl)
    /\ last' = [NoOp EXCEPT !.op = "set", !.key = k, !.ttl = ttl]
    /\ UNCHANGED <<now, backend, maxsize, data, rows, hits, misses, lru, deadline, clientVars, auxVars>>

\* set returns before the lock: json.dumps(value) raised TypeError
\* (cache.py 63-71, 228-235)
SetNotSerializable(k, v, ttl) ==
    /\ TtlCaches(ttl)
    /\ ~Serializable(v)
    /\ last' = [NoOp EXCEPT !.op = "set", !.key = k, !.value = v, !.ttl = ttl,
                            !.until = now + ttl]
    /\ UNCHANGED <<now, backend, maxsize, data, rows, hits, misses, lru, deadline, clientVars, auxVars>>

MemSet(k, v, ttl, at) ==
    /\ backend = "memory"
    /\ TtlCaches(ttl)
    /\ Serializable(v)
    /\ at \in 0..now
    /\ data' = MemoryCache_set(data, k, v, at + ttl, maxsize)
    /\ History(Touch(lru, k), [deadline EXCEPT ![k] = at + ttl], MemKeys(data'))
    /\ last' = [NoOp EXCEPT !.op = "set", !.key = k, !.value = v, !.ttl = ttl,
                            !.until = at + ttl]
    /\ UNCHANGED <<now, backend, maxsize, rows, hits, misses, clientVars, auxVars>>

SqlSet(k, v, ttl) ==
    /\ backend = "sqlite"
    /\ TtlCaches(ttl)
    /\ Serializable(v)
    /\ rows' = SQLiteCache_set(rows, k, v, now, ttl, maxsize)
    /\ History(Touch(lru, k), [deadline EXCEPT ![k] = now + ttl], SqlKeys(rows'))
    /\ last' = [NoOp EXCEPT !.op = "set", !.key = k, !.value = v, !.ttl = ttl,
                            !.until = now + ttl, !.recovered = Recovered(k)]
    /\ UNCHANGED <<now, backend, maxsize, data, hits, misses, clientVars, auxVars>>

\* get, set (past its early returns), clear or stats called on a thread other
\* than the connection's creator: the first statement raises
\* sqlite3.ProgrammingError, which _exec logs and re-raises (cache.py 164-166)
SqlWrongThread(t, op) ==
    /\ backend = "sqlite"
    /\ ~MayUseConn(t)
    /\ last' = [NoOp EXCEPT !.op = op, !.exc = "ProgrammingError"]
    /\ UNCHANGED <<now, backend, maxsize, data, rows, hits, misses, lru, deadline, clientVars, auxVars>>

MemClear ==
    /\ backend = "memory"
    /\ data' = <<>>
    /\ hits' = 0
    /\ misses' = 0
    /\ History(<<>>, deadline, {})
    /\ last' = [NoOp EXCEPT !.op = "clear"]
    /\ UNCHANGED <<now, backend, maxsize, rows, clientVars, auxVars>>

SqlClear ==
    /\ backend = "sqlite"
    /\ rows' = <<>>
    /\ History(<<>>, deadline, {})
    /\ last' = [NoOp EXCEPT !.op = "clear"]
    /\ UNCHANGED <<now, backend, maxsize, data, hits, misses, clientVars, auxVars>>

\* stats(): the "size" it reports
MemStats ==
    /\ backend = "memory"
    /\ last' = [NoOp EXCEPT !.op = "stats", !.ret = PyInt(Len(data))]
    /\ UNCHANGED <<now, backend, maxsize, data, rows, hits, misses, lru, deadline, clientVars, auxVars>>

SqlStats ==
    /\ backend = "sqlite"
    /\ last' = [NoOp EXCEPT !.op = "stats", !.ret = PyInt(Len(rows))]
    /\ UNCHANGED <<now, backend, maxsize, data, rows, hits, misses, lru, deadline, clientVars, auxVars>>

NextStore ==
    \/ Tick
    \/ \E k \in StoreKeys, at \in 0..MaxTime : MemGet(k, at)
    \/ \E k \in StoreKeys : SqlGet(k)
    \/ \E k \in StoreKeys, ttl \in Ttls : SetNoTtl(k, ttl)
    \/ \E k \in StoreKeys, v \in Values, ttl \in Ttls : SetNotSerializable(k, v, ttl)
    \/ \E k \in StoreKeys, v \in Values, ttl \in Ttls, at \in 0..MaxTime : MemSet(k, v, ttl, at)
    \/ \E k \in StoreKeys, v \in Values, ttl \in Ttls : SqlSet(k, v, ttl)
    \/ \E t \in Threads, op \in {"get", "set", "clear", "stats"} : SqlWrongThread(t, op)
    \/ MemClear
    \/ SqlClear
    \/ MemStats
    \/ SqlStats

SpecStore == InitStore /\ [][NextStore]_vars

(***************************************************************************)
(* Properties of the stores.                                               *)
(***************************************************************************)
\* a get(k) that acts with the clock reading `at`
GetStep(k, at) == MemGet(k, at) \/ (SqlGet(k) /\ at = now)
Readings == 0..MaxTime

\* C1: in MemoryCache the number of stored entries never exceeds maxsize, in
\* every state between operations of any number of threads, and no stats()
\* reports a size above maxsize
C1_SizeWithinMaxsize ==
    backend = "memory" =>
        /\ Len(data) <= maxsize
        /\ last.op = "stats" => last.ret.v[1] <= maxsize

\* a full MemoryCache (size = maxsize = 2) whose stats() reported size 2, after
\* the clock has advanced
C1_Witness ==
    /\ backend = "memory"
    /\ maxsize = 2
    /\ Len(data) = 2
    /\ now > 0
    /\ last.op = "stats"
    /\ last.ret = PyInt(2)

\* C2 as claimed: a get never returns the value of an entry whose expires_at is
\* <= the get's clock reading; such an entry is reported absent
C2_ExpiredAtOrBeforeNowIsAbsent ==
    (last.op = "get" /\ last.age \in {"due", "expired"}) =>
        (~last.hit /\ last.ret = PyNone)

\* C2 amended: an entry whose expires_at is before the get's clock reading is
\* reported absent (and counted a miss); an entry whose expires_at equals the
\* reading is still returned
C2_ExpiredBeforeNowIsAbsent ==
    /\ (last.op = "get" /\ last.age = "expired") => (~last.hit /\ last.ret = PyNone)
    /\ (last.op = "get" /\ last.age = "due") => (last.hit /\ last.ret # PyNone)

\* a get found its entry expired, on either backend
C2_Witness ==
    /\ last.op = "get"
    /\ last.age = "expired"
    /\ now = 2

\* the value json.loads(json.dumps(v)) gives back: a tuple comes back as a
\* list, a mapping's keys as strings
RECURSIVE JsonNative(_)
JsonNative(x) ==
    CASE IsSeqType(x) -> PyList([i \in 1..Len(x.v) |-> JsonNative(x.v[i])])
      [] x.t = "dict" ->
            PyDict([i \in 1..Len(x.v) |->
                <<(IF x.v[i][1].t = "int" THEN PyStr(ToString(x.v[i][1].v[1]))
                   ELSE x.v[i][1]),
                  JsonNative(x.v[i][2])>>])
      [] OTHER -> x

\* the set that completed last was set(k, v, ttl > 0), and a get(k) now acts
\* with a clock reading not past that set's reading + ttl
GetRightAfterSet(k, at) ==
    /\ maxsize >= 1
    /\ last.op = "set"
    /\ last.key = k
    /\ last.exc = "none"
    /\ last.ttl > 0
    /\ at <= last.until
    /\ last'.op = "get"
    /\ GetStep(k, at)

\* a get(k) acts with a clock reading past the reading + ttl of the last set
\* that stored k
GetPastDeadline(k, at) ==
    /\ maxsize >= 1
    /\ deadline[k] # NoDeadline
    /\ at > deadline[k]
    /\ last'.op = "get"
    /\ last'.key = k
    /\ GetStep(k, at)

\* C3 as claimed (both backends, maxsize >= 1, a full store included): a get(k)
\* directly after set(k, v, ttl > 0) returns v, and a get(k) whose clock reading
\* is past set-time + ttl returns absent
C3_TtlCorrectness ==
    [][\A k \in StoreKeys, at \in Readings :
        /\ GetRightAfterSet(k, at) => last'.ret = last.value
        /\ GetPastDeadline(k, at) => last'.ret = PyNone]_vars

\* C3 amended: for a value json can encode, the get directly after the set
\* returns the value as stored: v itself from MemoryCache, v decoded from its
\* JSON text from SQLiteCache (a tuple comes back as a list); a value json cannot
\* encode is not stored, so the get returns what k held before; a get past
\* set-time + ttl returns absent
C3_TtlCorrectnessStored ==
    [][\A k \in StoreKeys, at \in Readings :
        /\ (GetRightAfterSet(k, at) /\ Serializable(last.value)) =>
              last'.ret = IF backend = "memory" THEN last.value
                          ELSE JsonNative(last.value)
        /\ GetPastDeadline(k, at) => last'.ret = PyNone]_vars

\* a get returned the entry directly after the set that stored it in a full store
C3_Witness ==
    /\ last.op = "get"
    /\ last.after = "set"
    /\ last.hit
    /\ maxsize = 2
    /\ Len(data) + Len(rows) = 2

\* a MemoryCache set(k, _, _) that writes acts, with the value, ttl and clock
\* reading that the step records
MemSetStep(k) ==
    /\ last'.op = "set"
    /\ last'.key = k
    /\ MemSet(k, last'.value, last'.ttl, last'.until - last'.ttl)

\* a MemoryCache get(k) acts with clock reading `at`
MemGetStep(k, at) ==
    /\ last'.op = "get"
    /\ last'.key = k
    /\ MemGet(k, at)

KeySeq(d) == [i \in 1..Len(d) |-> d[i].key]
Newest(order, n) == {order[i] : i \in (Len(order) - Min(Len(order), n) + 1)..Len(order)}

\* what a MemoryCache set(k) must leave stored: the maxsize most recently used
\* keys, k being the most recent
LruKept(k) == Newest(Touch(lru, k), maxsize)

\* C5 as claimed: a MemoryCache set that makes the size exceed maxsize removes
\* exactly the least recently used entries and never the key just set; with
\* maxsize = 2, set A, set B, set C leave exactly B and C
C5_LruEviction ==
    [][\A k \in StoreKeys :
        MemSetStep(k) =>
            /\ MemKeys(data') = LruKept(k)
            /\ k \in MemKeys(data')
            /\ (maxsize = 2 /\ lru = <<KeyA, KeyB>> /\ k = KeyC) =>
                    MemKeys(data') = {KeyB, KeyC}]_vars

\* C5 amended: the key just set is kept when maxsize >= 1; with maxsize = 0 it is
\* itself removed at once
C5_LruEvictionPositive ==
    [][\A k \in StoreKeys :
        MemSetStep(k) =>
            /\ MemKeys(data') = LruKept(k)
            /\ (maxsize >= 1) => k \in MemKeys(data')
            /\ (maxsize = 0) => data' = <<>>
            /\ (maxsize = 2 /\ lru = <<KeyA, KeyB>> /\ k = KeyC) =>
                    MemKeys(data') = {KeyB, KeyC}]_vars

\* set C has evicted A from a MemoryCache of maxsize 2 that held A and B
C5_Witness ==
    /\ backend = "memory"
    /\ maxsize = 2
    /\ last.op = "set"
    /\ last.key = KeyC
    /\ KeySeq(data) = <<KeyB, KeyC>>

\* C6: a MemoryCache get that returns k's entry makes k the most recently used
\* and keeps the order of the others; a get that misses keeps the order of the
\* others; with maxsize = 2 and A, B stored, get(A) then set(C) evicts B
C6_LruTouch ==
    [][/\ \A k \in StoreKeys, at \in Readings :
            MemGetStep(k, at) =>
                KeySeq(data') = IF last'.hit THEN Touch(KeySeq(data), k)
                                ELSE SelectSeq(KeySeq(data), LAMBDA x : x # k)
       /\ (/\ last.op = "get" /\ last.key = KeyA /\ last.hit
           /\ maxsize = 2
           /\ MemKeys(data) = {KeyA, KeyB}
           /\ MemSetStep(KeyC)) =>
                KeySeq(data') = <<KeyA, KeyC>>]_vars

\* get(A) touched A, the older of A and B, and set(C) then evicted B
C6_Witness ==
    /\ backend = "memory"
    /\ maxsize = 2
    /\ hits = 1
    /\ last.op = "set"
    /\ last.key = KeyC
    /\ KeySeq(data) = <<KeyA, KeyC>>

\* C7 as claimed: after set(k, v, ttl <= 0) the next get(k) returns absent, in
\* whatever state the set was called
C7_NoTtlThenAbsent ==
    [][\A k \in StoreKeys, at \in Readings :
        (After(k) = "set0" /\ last'.op = "get" /\ GetStep(k, at)) => last'.ret = PyNone]_vars

\* C7 amended: set(k, v, ttl <= 0) leaves the store as it was, so the next
\* get(k) returns absent when k held no entry or an expired one, and returns the
\* value k already held otherwise
C7_NoTtlStoresNothing ==
    [][/\ (last'.op = "set" /\ last'.ttl <= 0) => (data' = data /\ rows' = rows)
       /\ \A k \in StoreKeys, at \in Readings :
            (After(k) = "set0" /\ last'.op = "get" /\ GetStep(k, at)) =>
                /\ last'.age \in {"absent", "expired"} => last'.ret = PyNone
                /\ last'.age \in {"fresh", "due"} => last'.hit]_vars

\* a get directly after set(k, v, ttl <= 0) on a key that held a live entry
C7_Witness ==
    /\ last.op = "get"
    /\ last.after = "set0"
    /\ last.hit

(***************************************************************************)
(* The remote service and the client (http.py GristClient).                *)
(***************************************************************************)
(***************************************************************************)
(* The remote service: the JSON body of a successful response, by endpoint *)
(* and by what the service holds when it answers: `srv` is "full" or       *)
(* "empty". With hidden = true the service lists the hidden column         *)
(* manualSort too.                                                         *)
(***************************************************************************)
Bodies == {"full", "empty"}
\* a success response that carries JSON null where the list is expected
NullBody == "null"

OrgsBody(srv) ==
    IF srv = NullBody THEN PyNone
    ELSE IF srv = "empty" THEN PyList(<<>>)
    ELSE PyList(<<Dict(<< <<"id", PyInt(1)>> >>)>>)

WorkspacesBody(srv) ==
    IF srv = NullBody THEN PyNone
    ELSE IF srv = "empty" THEN PyList(<<>>)
    ELSE PyList(<<Dict(<< <<"id", PyInt(1)>>, <<"name", PyStr("w")>>,
                         <<"access", PyStr("owners")>>, <<"orgDomain", PyStr("o")>>,
                         <<"docs", PyList(<<Dict(<< <<"id", PyStr("D1")>>,
                                                    <<"name", PyStr("d")>>,
                                                    <<"createdAt", PyStr("t")>>,
                                                    <<"updatedAt", PyStr("t")>> >>)>>)>> >>)>>)

TablesBody(srv) ==
    Dict(<< <<"tables", IF srv = NullBody THEN PyNone
                        ELSE IF srv = "empty" THEN PyList(<<>>)
                        ELSE PyList(<<Dict(<< <<"id", PyStr("T1")>> >>)>>)>> >>)

ColumnsBody(srv, hidden) ==
    Dict(<< <<"columns",
              IF srv = NullBody THEN PyNone
              ELSE IF srv = "empty" THEN PyList(<<>>)
              ELSE PyList(<<Dict(<< <<"id", PyStr("a")>> >>)>>
                          \o IF hidden THEN <<Dict(<< <<"id", PyStr("manualSort")>> >>)>>
                             ELSE <<>>)>> >>)

RecordsBody(srv, hidden) ==
    Dict(<< <<"records",
              IF srv = NullBody THEN PyNone
              ELSE IF srv = "empty" THEN PyList(<<>>)
              ELSE PyList(<<Dict(<< <<"id", PyInt(1)>>,
                                    <<"fields",
                                      Dict(<< <<"a", PyInt(5)>> >>
                                           \o IF hidden THEN << <<"manualSort", PyInt(1)>> >>
                                              ELSE <<>>)>> >>)>>)>> >>)

\* how a request ends: a success response with one of the bodies, a non-success
\* response once urllib3 has used up its retries (raise_for_status raises
\* HTTPError), or an error raised by the transport (session.get raises)
Failures == {"http_error", "transport_error"}
Outcomes == Bodies \cup Failures

(***************************************************************************)
(* Decoding (http.py 209-226, 364-375).                                    *)
(***************************************************************************)
\* list_docs: one flat entry per document of the workspaces that pass ws_id
DocEntry(ws, doc) ==
    Dict(<< <<"workspace_id", DictGet(ws, "id", PyNone)>>,
            <<"workspace_name", DictGet(ws, "name", PyNone)>>,
            <<"workspace_access", DictGet(ws, "access", PyNone)>>,
            <<"org_domain", DictGet(ws, "orgDomain", PyNone)>>,
            <<"doc_id", DictGet(doc, "id", PyNone)>>,
            <<"doc_name", DictGet(doc, "name", PyNone)>>,
            <<"doc_created_at", DictGet(doc, "createdAt", PyNone)>>,
            <<"doc_updated_at", DictGet(doc, "updatedAt", PyNone)>> >>)

FlattenDocs(workspaces, ws_id) ==
    PyList(Concat([i \in 1..Len(workspaces.v) |->
        LET ws == workspaces.v[i]
            docs == Or(DictGet(ws, "docs", PyList(<<>>)), PyList(<<>>))
        IN IF ws_id # PyNone /\ ws_id # DictGet(ws, "id", PyNone) THEN <<>>
           ELSE [j \in 1..Len(docs.v) |-> DocEntry(ws, docs.v[j])]]))

\* iter_records: one row per record, its fields and, with include_id, its id
RecordRows(payload, include_id) ==
    LET records == Or(DictGet(Or(payload, PyDict(<<>>)), "records", PyList(<<>>)),
                      PyList(<<>>))
    IN PyList([i \in 1..Len(records.v) |->
            LET row == Or(DictGet(records.v[i], "fields", PyDict(<<>>)), PyDict(<<>>))
            IN IF include_id THEN DictSet(row, "id", DictGet(records.v[i], "id", PyNone))
               ELSE row])

(***************************************************************************)
(* The client's use of its store. `s` is the store while an operation      *)
(* runs: [data, rows, hits, misses]; the operations of one client run one  *)
(* after the other, each reading the clock at `now`.                       *)
(***************************************************************************)
Store == [data |-> data, rows |-> rows, hits |-> hits, misses |-> misses]

\* Variants of the definitions below: a lookup that never finds anything, and
\* metadata lookups that cache an empty result when the request fails or cache
\* with records_ttl
_cache_get_Miss(s, key) == [s |-> s, ret |-> PyNone]

Counted(s, hit) ==
    IF hit THEN [s EXCEPT !.hits = @ + 1] ELSE [s EXCEPT !.misses = @ + 1]

\* GristClient._cache_get: [s, ret]
\* the store and the value after the store's get came to g
FromMemory(s, g) == [s |-> Counted([s EXCEPT !.data = g.data], g.hit), ret |-> g.ret]
FromSqlite(s, g) == [s |-> Counted([s EXCEPT !.rows = g.rows], g.hit), ret |-> g.ret]

_cache_get(s, key) ==
    IF ~cfg.enabled THEN [s |-> s, ret |-> PyNone]
    ELSE IF backend = "memory" THEN FromMemory(s, MemoryCache_get(s.data, key, now))
    ELSE FromSqlite(s, SQLiteCache_get(s.rows, key, now))

\* GristClient._cache_set, with the early returns of the store's set
_cache_set(s, key, value, ttl) ==
    IF ~cfg.enabled \/ ~TtlCaches(ttl) \/ ~Serializable(value) THEN s
    ELSE IF backend = "memory"
    THEN [s EXCEPT !.data = MemoryCache_set(s.data, key, value, now + ttl, maxsize)]
    ELSE [s EXCEPT !.rows = SQLiteCache_set(s.rows, key, value, now, ttl, maxsize)]

\* what an operation comes to: the store it leaves, whether it returned or
\* raised, its result and the number of requests it issued
Returned(s, result, sent) ==
    [s |-> s, outcome |-> "returned", result |-> result, sent |-> sent]
Raised(s, sent) ==
    [s |-> s, outcome |-> "raised", result |-> PyNone, sent |-> sent]

Cached_OnFailure(s, key, o, decoded) ==
    LET g == _cache_get(s, key)
        got == IF o \in Failures THEN PyList(<<>>) ELSE decoded
    IN IF g.ret # PyNone THEN Returned(g.s, g.ret, 0)
       ELSE Returned(_cache_set(g.s, key, got, cfg.metadata_ttl), got, 1)
Cached_RecordsTtl(s, key, o, decoded) ==
    LET g == _cache_get(s, key) IN
    IF g.ret # PyNone THEN Returned(g.s, g.ret, 0)
    ELSE IF o \in Failures THEN Raised(g.s, 1)
    ELSE Returned(_cache_set(g.s, key, decoded, cfg.records_ttl), decoded, 1)

\* the pattern of list_orgs, list_workspaces, list_tables and list_columns:
\* return the cached value unless it is None, else request, raise on failure,
\* decode, cache with metadata_ttl and return
\* g is what the lookup came to
Fetched(g, key, o, decoded) ==
    IF g.ret # PyNone THEN Returned(g.s, g.ret, 0)
    ELSE IF o \in Failures THEN Raised(g.s, 1)
    ELSE Returned(_cache_set(g.s, key, decoded, cfg.metadata_ttl), decoded, 1)

Cached(s, key, o, decoded) == Fetched(_cache_get(s, key), key, o, decoded)

list_orgs(s, o) ==
    Cached(s, _make_key("list_orgs", <<>>), o, OrgsBody(o))

list_workspaces(s, org_id, o) ==
    Cached(s, _make_key("list_workspaces", <<org_id>>), o, WorkspacesBody(o))

\* list_docs once list_workspaces came to w: its failure propagates, iterating
\* over None raises TypeError, else the flattened docs are cached and returned
Flattened(w, key, docs) ==
    IF w.outcome = "raised" THEN w
    ELSE IF w.result = PyNone THEN Raised(w.s, w.sent)
    ELSE Returned(_cache_set(w.s, key, docs, cfg.metadata_ttl), docs, w.sent)

\* list_docs once its lookup came to g
DocsFetched(g, key, ws_id, w) ==
    IF g.ret # PyNone THEN Returned(g.s, g.ret, 0)
    ELSE Flattened(w, key, FlattenDocs(w.result, ws_id))

DocsLooked(g, key, org_id, ws_id, o) ==
    DocsFetched(g, key, ws_id, list_workspaces(g.s, org_id, o))

DocsCached(s, key, org_id, ws_id, o) ==
    DocsLooked(_cache_get(s, key), key, org_id, ws_id, o)

list_docs(s, org_id, ws_id, o) ==
    DocsCached(s, _make_key("list_docs", <<org_id, ws_id>>), org_id, ws_id, o)

list_tables(s, doc_id, o) ==
    Cached(s, _make_key("list_tables", <<doc_id>>), o,
           DictGet(TablesBody(o), "tables", PyNone))

list_columns(s, doc_id, table_id, hidden, o) ==
    Cached(s, _make_key("list_columns", <<doc_id, table_id>>), o,
           DictGet(ColumnsBody(o, hidden), "columns", PyNone))

\* iter_records consumed to its end; on a hit it yields a copy of each cached row
\* iter_records once its lookup came to g; rws are the rows decoded from the
\* response
RecordsFetched(g, key, o, rws) ==
    IF g.ret # PyNone THEN Returned(g.s, g.ret, 0)
    ELSE IF o \in Failures THEN Raised(g.s, 1)
    ELSE Returned(IF cfg.records_ttl > 0
                  THEN _cache_set(g.s, key, rws, cfg.records_ttl) ELSE g.s,
                  rws, 1)

RecordsCached(s, key, o, rws) ==
    RecordsFetched(IF cfg.records_ttl > 0 THEN _cache_get(s, key)
                   ELSE [s |-> s, ret |-> PyNone],
                   key, o, rws)

iter_records(s, doc_id, table_id, hidden, params, include_id, o) ==
    RecordsCached(s, RecordsKey(doc_id, table_id, params), o,
                  RecordRows(RecordsBody(o, hidden), include_id))

(***************************************************************************)
(* The client operations as steps.                                         *)
(***************************************************************************)

\* the clients of the model: the backend, maxsize and CacheConfig each is built
\* with
Cfg(enabled, metadata_ttl, records_ttl) ==
    [enabled |-> enabled, metadata_ttl |-> metadata_ttl, records_ttl |-> records_ttl]
Setup(b, size, c) == [backend |-> b, maxsize |-> size, cfg |-> c]
Setups ==
    {Setup(b, size, Cfg(TRUE, 1, 1)) : b \in {"memory", "sqlite"}, size \in {1, 2}}
    \cup {Setup("memory", 0, Cfg(TRUE, 1, 1)),
          Setup("memory", 2, Cfg(TRUE, 1, 0)),
          Setup("sqlite", 2, Cfg(TRUE, 0, 1)),
          Setup("memory", 2, Cfg(FALSE, 1, 1))}

\* a client just built with one of the setups `sus`
Built(sus) ==
    /\ now = 0
    /\ \E su \in sus :
        /\ backend = su.backend
        /\ maxsize = su.maxsize
        /\ cfg = su.cfg
    /\ data = <<>>
    /\ rows = <<>>
    /\ hits = 0
    /\ misses = 0
    /\ last = NoOp
    /\ lru = <<>>
    /\ deadline = [k \in StoreKeys |-> NoDeadline]
    /\ call = NoCall
    /\ first = NoFetch
    /\ inflight = NoSet
    /\ twin = NoTwin
    /\ Idle
    /\ derived = NoKeys

InitClient == Built(Setups)

\* iter_records does not read metadata_ttl
InitRecords == Built({su \in Setups : su.cfg.metadata_ttl = 1})

\* the operation `op(args)` completes as `r`
Completes(op, args, r, o) ==
    /\ r.s.hits + r.s.misses <= MaxLookups
    /\ data' = r.s.data
    /\ rows' = r.s.rows
    /\ hits' = r.s.hits
    /\ misses' = r.s.misses
    /\ call' = [op |-> op, args |-> args, outcome |-> r.outcome, result |-> r.result,
                sent |-> r.sent,
                response |-> IF r.sent = 0 THEN "none"
                             ELSE IF o \in Failures THEN "failure" ELSE "success"]
    /\ UNCHANGED <<now, backend, maxsize, last, lru, deadline, cfg, auxVars>>

ListOrgs(o) ==
    /\ Completes("list_orgs", <<>>, list_orgs(Store, o), o)
    /\ UNCHANGED first

ListWorkspaces(org_id, o) ==
    /\ Completes("list_workspaces", <<org_id>>, list_workspaces(Store, org_id, o), o)
    /\ UNCHANGED first

ListDocs(org_id, ws_id, o) ==
    /\ Completes("list_docs", <<org_id, ws_id>>, list_docs(Store, org_id, ws_id, o), o)
    /\ UNCHANGED first

ListTables(doc_id, o) ==
    /\ Completes("list_tables", <<doc_id>>, list_tables(Store, doc_id, o), o)
    /\ UNCHANGED first

ListColumns(doc_id, table_id, hidden, o) ==
    /\ Completes("list_columns", <<doc_id, table_id, hidden>>,
                 list_columns(Store, doc_id, table_id, hidden, o), o)
    /\ UNCHANGED first

\* iter_records came to r
Yielded(doc_id, table_id, hidden, params, include_id, r, o) ==
    /\ Completes("iter_records", <<doc_id, table_id, hidden, params, include_id>>, r, o)
    /\ first' = IF r.outcome = "returned" /\ r.sent = 1
                THEN [key |-> RecordsKey(doc_id, table_id, params),
                      result |-> r.result, at |-> now]
                ELSE first

IterRecords(doc_id, table_id, hidden, params, include_id, o) ==
    Yielded(doc_id, table_id, hidden, params, include_id,
            iter_records(Store, doc_id, table_id, hidden, params, include_id, o), o)

\* GristClient.clear_cache
ClearCache ==
    /\ cfg.enabled
    /\ data' = <<>>
    /\ rows' = <<>>
    /\ hits' = IF backend = "memory" THEN 0 ELSE hits
    /\ misses' = IF backend = "memory" THEN 0 ELSE misses
    /\ call' = [NoCall EXCEPT !.op = "clear_cache", !.outcome = "returned"]
    /\ UNCHANGED <<now, backend, maxsize, last, lru, deadline, cfg, first, auxVars>>

\* a client used for all its operations, list_columns and iter_records with
\* their default optional arguments (hidden = True, params = None,
\* include_id = True)
NextClient ==
    \/ Tick
    \/ ClearCache
    \/ \E o \in Outcomes : ListOrgs(o)
    \/ \E org_id \in OrgIds, o \in Outcomes : ListWorkspaces(org_id, o)
    \/ \E org_id \in OrgIds, ws_id \in WsIds, o \in Outcomes : ListDocs(org_id, ws_id, o)
    \/ \E doc_id \in DocIds, o \in Outcomes : ListTables(doc_id, o)
    \/ \E doc_id \in DocIds, table_id \in TableIds, o \in Outcomes :
            ListColumns(doc_id, table_id, TRUE, o)
    \/ \E doc_id \in DocIds, table_id \in TableIds, o \in Outcomes :
            IterRecords(doc_id, table_id, TRUE, PyNone, TRUE, o)

SpecClient == InitClient /\ [][NextClient]_vars

\* a client used for iter_records only, with every combination of its arguments
NextRecords ==
    \/ Tick
    \/ ClearCache
    \/ \E doc_id \in DocIds, table_id \in TableIds, hidden \in BOOLEAN,
          params \in Params, include_id \in BOOLEAN, o \in Outcomes :
            IterRecords(doc_id, table_id, hidden, params, include_id, o)

SpecRecords == InitRecords /\ [][NextRecords]_vars

(***************************************************************************)
(* Properties of the client.                                               *)
(***************************************************************************)
\* the calls of NextClient
ClientCalls ==
    {[op |-> "list_orgs", args |-> <<>>]}
    \cup {[op |-> "list_workspaces", args |-> <<org_id>>] : org_id \in OrgIds}
    \cup {[op |-> "list_docs", args |-> <<org_id, ws_id>>] :
                org_id \in OrgIds, ws_id \in WsIds}
    \cup {[op |-> "list_tables", args |-> <<doc_id>>] : doc_id \in DocIds}
    \cup {[op |-> "list_columns", args |-> <<doc_id, table_id, TRUE>>] :
                doc_id \in DocIds, table_id \in TableIds}
    \cup {[op |-> "iter_records", args |-> <<doc_id, table_id, TRUE, PyNone, TRUE>>] :
                doc_id \in DocIds, table_id \in TableIds}

\* the step is a call of a client operation (the other steps advance the clock
\* or clear the cache); call' records the operation, its arguments and how it
\* ended
CallStep == now' = now /\ call'.op \notin {"init", "clear_cache"}
TheCall == [op |-> call'.op, args |-> call'.args]

\* the key a call caches its result under, and the keys it may look up
KeyOf(c) ==
    CASE c.op = "list_columns" -> _make_key(c.op, <<c.args[1], c.args[2]>>)
      [] c.op = "iter_records" -> RecordsKey(c.args[1], c.args[2], c.args[4])
      [] OTHER -> _make_key(c.op, c.args)
LookupKeys(c) ==
    CASE c.op = "list_docs" -> {KeyOf(c), _make_key("list_workspaces", <<c.args[1]>>)}
      [] c.op = "iter_records" -> IF cfg.records_ttl > 0 THEN {KeyOf(c)} ELSE {}
      [] OTHER -> {KeyOf(c)}

\* the stored entries as (key text, expires_at, value) triples, the value as
\* MemoryCache holds it or as SQLiteCache decodes it
EntriesOf(d, r) ==
    {<<TextOf(d[i].key), d[i].expires_at, d[i].value>> : i \in 1..Len(d)}
    \cup {<<r[i].key_text, r[i].expires_at, JsonLoads(r[i].value_json).val>> :
                i \in 1..Len(r)}
Stored(key) == \E e \in EntriesOf(data, rows) : e[1] = TextOf(key)

\* C4 (a client with caching enabled and records_ttl > 0): once an iter_records
\* call has fetched its rows with one HTTP request, a later iter_records call
\* with the same doc_id, table_id and params, made no more than records_ttl
\* after it while the entry is still stored, issues no HTTP request and yields
\* the same rows in the same order
C4_IdempotentRefetch ==
    [][(/\ CallStep
        /\ call'.op = "iter_records"
        /\ cfg.enabled
        /\ cfg.records_ttl > 0
        /\ first.key = KeyOf(TheCall)
        /\ now <= first.at + cfg.records_ttl
        /\ Stored(first.key)) =>
            /\ call'.outcome = "returned"
            /\ call'.sent = 0
            /\ call'.result = first.result]_vars

\* the second call was served from the store at the very end of the ttl window,
\* with rows that are not empty
C4_Witness ==
    /\ call.op = "iter_records"
    /\ call.outcome = "returned"
    /\ call.sent = 0
    /\ first.key # PyNone
    /\ call.result = first.result
    /\ call.result # PyList(<<>>)
    /\ now = first.at + cfg.records_ttl

\* what a failed call leaves of the store `d`, `r`: all but the expired
\* entries under the keys it looked up
AfterLookups(d, r, c) ==
    {e \in EntriesOf(d, r) :
        ~(Expired(e[2], now) /\ \E k \in LookupKeys(c) : e[1] = TextOf(k))}

\* the call after one that raised, of the same operation with the same
\* arguments, issues a request
Retried == call.outcome = "raised" /\ call'.op = call.op /\ call'.args = call.args

\* C8 as claimed: a client operation whose request fails raises, leaves the
\* store's entries as they were, and the next identical call issues a request
C8_ErrorsNotCached ==
    [][CallStep =>
        /\ call'.response = "failure" =>
                /\ call'.outcome = "raised"
                /\ data' = data /\ rows' = rows
        /\ Retried => call'.sent = 1]_vars

\* C8 amended: a client operation whose request fails raises, adds no entry and
\* alters none; the lookup it made before the request has removed the expired
\* entries stored under its own keys and nothing else; the next identical call
\* issues a request
C8_ErrorsStoreNothing ==
    [][CallStep =>
        /\ call'.response = "failure" =>
                /\ call'.outcome = "raised"
                /\ EntriesOf(data', rows') = AfterLookups(data, rows, TheCall)
                /\ Len(data') + Len(rows') <= Len(data) + Len(rows)
        /\ Retried => call'.sent = 1]_vars

\* a call raised while the store held an entry, which it still holds
C8_Witness ==
    /\ call.outcome = "raised"
    /\ call.sent = 1
    /\ Len(data) + Len(rows) = 1
    /\ hits + misses = 2

\* the ttl of the class of the entry with key text `text`
MetadataTexts == {TextOf(KeyOf(c)) : c \in {x \in ClientCalls : x.op # "iter_records"}}
ClassTtl(text) == IF text \in MetadataTexts THEN cfg.metadata_ttl ELSE cfg.records_ttl

\* C9: an entry is written with expires_at = the clock reading of the write +
\* records_ttl by iter_records and + metadata_ttl by a list_* operation, and a
\* call that fetched leaves such an entry (in a store of maxsize >= 1); nothing
\* is written for a class whose ttl is 0; with records_ttl = 0 an iter_records
\* call leaves the store and its counters as they were and issues a request
C9_TtlClass ==
    [][CallStep =>
       /\ \A e \in EntriesOf(data', rows') \ EntriesOf(data, rows) :
            /\ ClassTtl(e[1]) > 0
            /\ e[2] = now + ClassTtl(e[1])
       /\ call'.response = "success" =>
            IF cfg.enabled /\ ClassTtl(TextOf(KeyOf(TheCall))) > 0 /\ maxsize >= 1
            THEN \E e \in EntriesOf(data', rows') :
                    /\ e[1] = TextOf(KeyOf(TheCall))
                    /\ e[2] = now + ClassTtl(e[1])
                    /\ e[3] = call'.result
            ELSE \A e \in EntriesOf(data', rows') : e[1] # TextOf(KeyOf(TheCall))
       /\ (call'.op = "iter_records" /\ cfg.records_ttl = 0) =>
            /\ call'.sent = 1
            /\ <<data', rows', hits', misses'>> = <<data, rows, hits, misses>>]_vars

\* with records_ttl = 0 and metadata_ttl = 1, an iter_records call has fetched
\* and the store holds list_* entries only
C9_Witness ==
    /\ cfg.records_ttl = 0
    /\ call.op = "iter_records"
    /\ call.sent = 1
    /\ call.outcome = "returned"
    /\ Len(data) = 2

(***************************************************************************)
(* Key derivation on its own: two mappings holding the same pairs are      *)
(* drawn, then _make_key and _key_to_text are applied to both.             *)
(***************************************************************************)
\* the mapping keys of the model: the first MaxPairs strings of StrOrder
PairKeys == {StrOrder[i] : i \in 1..MaxPairs}
PairValues == {PyInt(1), PyStr("x")}

\* the sequences that list each element of the set S once
Orders(S) ==
    {f \in [1..Cardinality(S) -> S] : \A i, j \in 1..Cardinality(S) : f[i] = f[j] => i = j}

\* the mapping with the keys of `order`, inserted in that order
Mapping(order, val) == Dict([i \in 1..Len(order) |-> <<order[i], val[order[i]]>>])

\* where the mapping sits in the part handed to _make_key: the part itself, the
\* `filter` of a params mapping (whose own two pairs are inserted in either
\* order), or an element of a list
Places == {"part", "in_mapping", "in_mapping_reversed", "in_list"}
Placed(m, place) ==
    CASE place = "part" -> m
      [] place = "in_mapping" -> Dict(<< <<"filter", m>>, <<"sort", PyStr("id")>> >>)
      [] place = "in_mapping_reversed" ->
            Dict(<< <<"sort", PyStr("id")>>, <<"filter", m>> >>)
      [] place = "in_list" -> PyList(<<PyInt(0), m>>)

\* the places of two values that hold the same pairs
SamePlaces ==
    {<<p, p>> : p \in Places}
    \cup {<<"in_mapping", "in_mapping_reversed">>, <<"in_mapping_reversed", "in_mapping">>}

InitKey ==
    /\ now = 0
    /\ backend = "memory"
    /\ maxsize = 0
    /\ data = <<>>
    /\ rows = <<>>
    /\ hits = 0
    /\ misses = 0
    /\ last = NoOp
    /\ lru = <<>>
    /\ deadline = [k \in StoreKeys |-> NoDeadline]
    /\ cfg = CacheConfig
    /\ call = NoCall
    /\ first = NoFetch
    /\ inflight = NoSet
    /\ twin = NoTwin
    /\ Idle
    /\ \E ks \in SUBSET PairKeys \ {{}} :
       \E val \in [ks -> PairValues], o1 \in Orders(ks), o2 \in Orders(ks),
          pl \in SamePlaces :
            derived = [NoKeys EXCEPT !.m1 = Placed(Mapping(o1, val), pl[1]),
                                     !.m2 = Placed(Mapping(o2, val), pl[2]),
                                     !.stage = "drawn"]

\* key = self._make_key("iter_records", m)
MakeKey ==
    /\ derived.stage = "drawn"
    /\ derived' = [derived EXCEPT !.stage = "key",
                                  !.key1 = _make_key("iter_records", <<derived.m1>>),
                                  !.key2 = _make_key("iter_records", <<derived.m2>>)]
    /\ UNCHANGED <<storeVars, clientVars, inflight, twin, sideVars>>

\* key_text = _key_to_text(key)
KeyToText ==
    /\ derived.stage = "key"
    /\ derived' = [derived EXCEPT !.stage = "text",
                                  !.text1 = _key_to_text(derived.key1),
                                  !.text2 = _key_to_text(derived.key2)]
    /\ UNCHANGED <<storeVars, clientVars, inflight, twin, sideVars>>

NextKey == MakeKey \/ KeyToText

SpecKey == InitKey /\ [][NextKey]_vars

\* C10: two mappings holding the same pairs (string keys) inserted in different
\* orders, on their own or nested in a mapping or a list, give equal keys under
\* _make_key and the identical text under _key_to_text
C10_KeyStability ==
    /\ derived.stage \in {"key", "text"} => derived.key1 = derived.key2
    /\ derived.stage = "text" => derived.text1 = derived.text2

\* two nested mappings of MaxPairs pairs in different orders have been keyed
C10_Witness ==
    /\ derived.stage = "text"
    /\ derived.m1 # derived.m2
    /\ derived.m1.t = "dict"
    /\ Len(DictGet(derived.m1, "filter", PyDict(<<>>)).v) = MaxPairs
    /\ DictGet(derived.m1, "filter", PyNone) # DictGet(derived.m2, "filter", PyNone)
    /\ derived.key1 = derived.key2
    /\ derived.text1 = derived.text2

(***************************************************************************)
(* The query parameters of iter_records on their own: two `params`         *)
(* arguments are drawn for one document and table; each is normalized,     *)
(* keyed, written as key text and turned into the parameters of the        *)
(* request, in the order iter_records does it.                             *)
(***************************************************************************)
\* a filter on two columns, its pairs inserted in either order, and the JSON
\* text of the first as a caller (adapter.py 581) passes it
FilterAB == Dict(<< <<"a", PyList(<<PyInt(1)>>)>>, <<"b", PyList(<<PyInt(2)>>)>> >>)
FilterBA == Dict(<< <<"b", PyList(<<PyInt(2)>>)>>, <<"a", PyList(<<PyInt(1)>>)>> >>)
Absent == [t |-> "absent", v |-> <<>>]
Filters == {Absent, FilterAB, FilterBA, JsonStr(JsonDumps(FilterAB))}
Sorts == {Absent, PyStr("id"), PyStr("manualSort")}
Limits == {Absent, PyInt(0), PyInt(1)}

\* the `params` mapping holding the entries that are present
Entry(k, x) == IF x = Absent THEN <<>> ELSE << <<PyStr(k), x>> >>
ParamsOf(f, s, l) == PyDict(Entry("filter", f) \o Entry("sort", s) \o Entry("limit", l))
QueryParams == {ParamsOf(f, s, l) : f \in Filters, s \in Sorts, l \in Limits}

InitQuery ==
    /\ now = 0
    /\ backend = "memory"
    /\ maxsize = 0
    /\ data = <<>>
    /\ rows = <<>>
    /\ hits = 0
    /\ misses = 0
    /\ last = NoOp
    /\ lru = <<>>
    /\ deadline = [k \in StoreKeys |-> NoDeadline]
    /\ cfg = CacheConfig
    /\ call = NoCall
    /\ first = NoFetch
    /\ inflight = NoSet
    /\ twin = NoTwin
    /\ Idle
    /\ \E p1 \in QueryParams, p2 \in QueryParams, h \in BOOLEAN :
            derived = [NoKeys EXCEPT !.m1 = p1, !.m2 = p2, !.hidden = h,
                                     !.stage = "params"]

\* http.py 329-346
Normalize ==
    /\ derived.stage = "params"
    /\ derived' = [derived EXCEPT !.stage = "query",
                                  !.q1 = RecordsQuery(derived.m1),
                                  !.q2 = RecordsQuery(derived.m2)]
    /\ UNCHANGED <<storeVars, clientVars, inflight, twin, sideVars>>

\* http.py 349
DeriveKey ==
    /\ derived.stage = "query"
    /\ \E doc_id \in DocIds, table_id \in TableIds :
         derived' = [derived EXCEPT !.stage = "keyed",
                                    !.key1 = RecordsKey(doc_id, table_id, derived.m1),
                                    !.key2 = RecordsKey(doc_id, table_id, derived.m2)]
    /\ UNCHANGED <<storeVars, clientVars, inflight, twin, sideVars>>

\* cache.py 189, 225
DeriveText ==
    /\ derived.stage = "keyed"
    /\ derived' = [derived EXCEPT !.stage = "texted",
                                  !.text1 = _key_to_text(derived.key1),
                                  !.text2 = _key_to_text(derived.key2)]
    /\ UNCHANGED <<storeVars, clientVars, inflight, twin, sideVars>>

\* http.py 356-361
BuildRequest ==
    /\ derived.stage = "texted"
    /\ derived' = [derived EXCEPT !.stage = "requested",
                                  !.req1 = RecordsRequest(derived.m1, derived.hidden),
                                  !.req2 = RecordsRequest(derived.m2, derived.hidden)]
    /\ UNCHANGED <<storeVars, clientVars, inflight, twin, sideVars>>

NextQuery == Normalize \/ DeriveKey \/ DeriveText \/ BuildRequest

SpecQuery == InitQuery /\ [][NextQuery]_vars

\* the filter, sort and limit of normalized query parameters
Combination(q) ==
    <<DictGet(q, "filter", Absent), DictGet(q, "sort", Absent), DictGet(q, "limit", Absent)>>
Keyed == derived.stage \in {"keyed", "texted", "requested"}
Texted == derived.stage \in {"texted", "requested"}

\* C11: for one document and table, two `params` (a filter given as a mapping
\* or as JSON text, a sort string, an int limit, each present or not) whose
\* normalized filter, sort or limit differ derive different cache keys and
\* different key texts
C11_DistinctQueries ==
    /\ Keyed /\ Combination(derived.q1) # Combination(derived.q2)
            => derived.key1 # derived.key2
    /\ Texted /\ Combination(derived.q1) # Combination(derived.q2)
            => derived.text1 # derived.text2

\* two queries that differ only in the limit have been keyed and written as text
C11_Witness ==
    /\ Texted
    /\ DictGet(derived.q1, "filter", Absent) = DictGet(derived.q2, "filter", Absent)
    /\ DictGet(derived.q1, "filter", Absent) # Absent
    /\ DictGet(derived.q1, "sort", Absent) = DictGet(derived.q2, "sort", Absent)
    /\ DictGet(derived.q1, "limit", Absent) = PyInt(0)
    /\ DictGet(derived.q2, "limit", Absent) = PyInt(1)
    /\ derived.key1 # derived.key2
    /\ derived.text1 # derived.text2

\* the query parameters have been normalized; the request has been built
Normalized == derived.stage \in {"query", "keyed", "texted", "requested"}
Requested == derived.stage = "requested"

\* the value the normalized parameters hold under k: the caller's where the
\* caller's params carry k, the default otherwise
Defaulted(params, k, default) ==
    IF DictHas(QueryOf(params), k) THEN DictGet(QueryOf(params), k, Absent) ELSE default

\* C20: iter_records applies sort = 'id' exactly when the caller's params carry
\* no sort and limit = 0 exactly when they carry no limit, leaves a caller's
\* sort or limit unchanged, and the parameters the cache key is derived from
\* are the parameters sent in the request
C20_KeyParamsAreRequestParams ==
    /\ Normalized =>
         /\ DictGet(derived.q1, "sort", Absent) = Defaulted(derived.m1, "sort", PyStr("id"))
         /\ DictGet(derived.q1, "limit", Absent) = Defaulted(derived.m1, "limit", PyInt(0))
    /\ Requested => derived.req1 = derived.q1

\* C20 for what the request shares with the key: the defaults are applied as
\* stated, the request carries the filter, sort and limit the key was derived
\* from, and its `hidden` is the text of the hidden argument, whatever the
\* normalized parameters hold under `hidden`
C20_Defaults ==
    /\ Normalized =>
         /\ DictGet(derived.q1, "sort", Absent) = Defaulted(derived.m1, "sort", PyStr("id"))
         /\ DictGet(derived.q1, "limit", Absent) = Defaulted(derived.m1, "limit", PyInt(0))
    /\ Requested =>
         /\ Combination(derived.req1) = Combination(derived.q1)
         /\ DictGet(derived.req1, "hidden", Absent) = HiddenParam(derived.hidden)

\* a request has been built for params that name manualSort and no limit, with
\* the hidden argument False: the key holds hidden True, the request "false"
C20_Witness ==
    /\ Requested
    /\ ~derived.hidden
    /\ ~DictHas(derived.m1, "limit")
    /\ DictGet(derived.m1, "sort", Absent) = PyStr("manualSort")
    /\ DictGet(derived.q1, "limit", Absent) = PyInt(0)
    /\ DictGet(derived.q1, "hidden", Absent) = PyBool(TRUE)
    /\ DictGet(derived.req1, "hidden", Absent) = PyStr("false")

(***************************************************************************)
(* A client used for iter_records with a mapping-typed filter, the same    *)
(* entries inserted in either order.                                       *)
(***************************************************************************)
FilterParams == {ParamsOf(f, Absent, Absent) : f \in {FilterAB, FilterBA}}

InitFilter == Built({Setup(b, 2, Cfg(TRUE, 1, 1)) : b \in {"memory", "sqlite"}})

NextFilter ==
    \/ Tick
    \/ \E doc_id \in DocIds, table_id \in TableIds, params \in FilterParams,
          o \in Outcomes :
            IterRecords(doc_id, table_id, TRUE, params, TRUE, o)

SpecFilter == InitFilter /\ [][NextFilter]_vars

\* the `filter` of the params of an iter_records call, as given and as
\* normalized
FilterOf(c) == DictGet(c.args[4], "filter", Absent)
FilterText(c) == DictGet(RecordsQuery(c.args[4]), "filter", Absent)
\* two mappings with equal entries
SameEntries(f, g) == f.t = "dict" /\ g.t = "dict" /\ Range(f.v) = Range(g.v)

\* C12 (a client with caching enabled and records_ttl > 0): when an
\* iter_records call has fetched its rows and the next iter_records call, for
\* the same document and table, carries a filter mapping with equal entries
\* (in the same or another insertion order) no more than records_ttl later
\* while the entry is stored, both calls have the same filter string and the
\* same cache key, and the second call issues no HTTP request
C12_CanonicalFilter ==
    [][(/\ CallStep
        /\ call'.op = "iter_records"
        /\ call.op = "iter_records"
        /\ call.outcome = "returned"
        /\ call.sent = 1
        /\ SameEntries(FilterOf(call), FilterOf(call'))
        /\ now <= first.at + cfg.records_ttl
        /\ Stored(first.key)) =>
            /\ FilterText(call') = FilterText(call)
            /\ KeyOf(TheCall) = first.key
            /\ call'.sent = 0]_vars

(***************************************************************************)
(* Key derivation for collections: two collections (list, tuple or set)    *)
(* holding the same elements are drawn, each with the order its iteration  *)
(* yields, then _make_key and _key_to_text are applied to both. The        *)
(* iteration order of a set of strings is fixed by the interpreter's       *)
(* string hashing (randomized per process), so every order can occur.      *)
(***************************************************************************)
Elems == {PyStr(StrOrder[i]) : i \in 1..MaxElems}
CollTypes == {"list", "tuple", "set"}
Coll(type, order) == [t |-> type, v |-> order]

\* where the collection sits in the part handed to _make_key
CollPlaces == {"part", "in_mapping"}

InitColl ==
    /\ now = 0
    /\ backend = "memory"
    /\ maxsize = 0
    /\ data = <<>>
    /\ rows = <<>>
    /\ hits = 0
    /\ misses = 0
    /\ last = NoOp
    /\ lru = <<>>
    /\ deadline = [k \in StoreKeys |-> NoDeadline]
    /\ cfg = CacheConfig
    /\ call = NoCall
    /\ first = NoFetch
    /\ inflight = NoSet
    /\ twin = NoTwin
    /\ Idle
    /\ \E es \in SUBSET Elems \ {{}} :
       \E o1 \in Orders(es), o2 \in Orders(es), t1 \in CollTypes, t2 \in CollTypes,
          pl \in CollPlaces :
            derived = [NoKeys EXCEPT !.m1 = Placed(Coll(t1, o1), pl),
                                     !.m2 = Placed(Coll(t2, o2), pl),
                                     !.stage = "drawn"]

SpecColl == InitColl /\ [][NextKey]_vars

\* the collection placed in a part
CollOf(m) == IF m.t = "dict" THEN DictGet(m, "filter", PyNone) ELSE m

\* C13: two parts that differ only in the type of a nested collection (list,
\* tuple or set) normalize to the same key and key text exactly when the two
\* collections yield their elements in the same order; a set therefore shares
\* the key of a list of the same elements only if it iterates in the list's
\* order
C13_SameOrderSameKey ==
    /\ derived.stage \in {"key", "text"} =>
            (derived.key1 = derived.key2 <=> CollOf(derived.m1).v = CollOf(derived.m2).v)
    /\ derived.stage = "text" =>
            (derived.text1 = derived.text2 <=> CollOf(derived.m1).v = CollOf(derived.m2).v)

\* C13 as stated: a list or tuple and a set holding the same elements (or a
\* list and a tuple holding them in the same order) normalize to the same key
C13_SameElementsSameKey ==
    (/\ derived.stage \in {"key", "text"}
     /\ CollOf(derived.m1).t # CollOf(derived.m2).t
     /\ \/ "set" \in {CollOf(derived.m1).t, CollOf(derived.m2).t}
        \/ CollOf(derived.m1).v = CollOf(derived.m2).v)
        => derived.key1 = derived.key2

\* a list and a set of MaxElems elements in the same order, nested in a
\* mapping, have been keyed and written as text
C13_Witness ==
    /\ derived.stage = "text"
    /\ derived.m1.t = "dict"
    /\ CollOf(derived.m1).t = "list"
    /\ CollOf(derived.m2).t = "set"
    /\ Len(CollOf(derived.m1).v) = MaxElems
    /\ CollOf(derived.m1).v = CollOf(derived.m2).v
    /\ derived.key1 = derived.key2
    /\ derived.text1 = derived.text2

(***************************************************************************)
(* A client used for its list_* operations against a server that may also  *)
(* answer with JSON null.                                                  *)
(***************************************************************************)
Answers == Outcomes \cup {NullBody}

InitMeta == Built({Setup(b, size, Cfg(TRUE, 1, 1)) : b \in {"memory", "sqlite"},
                                                     size \in {1, 2}})

NextMeta ==
    \/ Tick
    \/ \E o \in Answers : ListOrgs(o)
    \/ \E org_id \in OrgIds, o \in Answers : ListWorkspaces(org_id, o)
    \/ \E org_id \in OrgIds, ws_id \in WsIds, o \in Answers : ListDocs(org_id, ws_id, o)
    \/ \E doc_id \in DocIds, o \in Answers : ListTables(doc_id, o)
    \/ \E doc_id \in DocIds, table_id \in TableIds, hidden \in BOOLEAN, o \in Answers :
            ListColumns(doc_id, table_id, hidden, o)

SpecMeta == InitMeta /\ [][NextMeta]_vars

MetadataOps == {"list_orgs", "list_workspaces", "list_docs", "list_tables", "list_columns"}

\* the entries stored under the key of the call that are not expired at `now`
Unexpired(c) ==
    {e \in EntriesOf(data, rows) : e[1] = TextOf(KeyOf(c)) /\ ~Expired(e[2], now)}

\* C14, for the values other than None (caching enabled, metadata_ttl > 0): a
\* list_* call whose key has an unexpired entry holding such a value returns
\* that value as stored (as decoded from its JSON text by SQLiteCache) and issues no HTTP
\* request, also when the value is an empty list; so a second identical call
\* made while the entry of the first is stored and unexpired issues no request
C14_MetadataHit ==
    [][(/\ CallStep
        /\ call'.op \in MetadataOps
        /\ cfg.enabled
        /\ cfg.metadata_ttl > 0) =>
            \A e \in Unexpired(TheCall) :
                e[3] # PyNone =>
                    /\ call'.outcome = "returned"
                    /\ call'.sent = 0
                    /\ call'.result = e[3]]_vars

\* C14 (caching enabled, metadata_ttl > 0): a list_* call whose key has an
\* unexpired entry in the store returns the cached value and issues no HTTP
\* request, whatever the cached value is
C14_MetadataHitAnyValue ==
    [][(/\ CallStep
        /\ call'.op \in MetadataOps
        /\ cfg.enabled
        /\ cfg.metadata_ttl > 0) =>
            \A e \in Unexpired(TheCall) :
                    /\ call'.outcome = "returned"
                    /\ call'.sent = 0
                    /\ call'.result = e[3]]_vars

\* a second list_orgs call was served an empty list from the store at the end
\* of the ttl window
C14_Witness ==
    /\ call.op = "list_orgs"
    /\ call.outcome = "returned"
    /\ call.sent = 0
    /\ call.result = PyList(<<>>)
    /\ hits = 1
    /\ now = cfg.metadata_ttl
    /\ \E e \in Unexpired(call) : e[2] = now /\ e[3] = PyList(<<>>)

(***************************************************************************)
(* SQLiteCache whose file is also written from outside: the value text of  *)
(* a stored row is replaced by text that json.loads rejects.               *)
(***************************************************************************)
Garbage == <<"{">>

Corrupt(k) ==
    /\ backend = "sqlite"
    /\ FindRow(rows, TextOf(k)) # 0
    /\ rows[FindRow(rows, TextOf(k))].value_json # Garbage
    /\ rows' = [rows EXCEPT ![FindRow(rows, TextOf(k))].value_json = Garbage]
    /\ last' = [NoOp EXCEPT !.op = "corrupt", !.key = k]
    /\ UNCHANGED <<now, backend, maxsize, data, hits, misses, lru, deadline, clientVars, auxVars>>

InitCorrupt == InitStore /\ backend = "sqlite"

NextCorrupt ==
    \/ Tick
    \/ \E k \in StoreKeys : SqlGetWithin(k, MaxGets + 1)
    \/ \E k \in StoreKeys, v \in Values, ttl \in Ttls : SqlSet(k, v, ttl)
    \/ \E k \in StoreKeys : Corrupt(k)

SpecCorrupt == InitCorrupt /\ [][NextCorrupt]_vars

\* the step is a get: it counts a hit or a miss
GetCounted == hits' + misses' = hits + misses + 1
\* the unexpired rows stored under k whose text does not decode
CorruptRows(k) ==
    {i \in 1..Len(rows) : /\ rows[i].key_text = TextOf(k)
                          /\ ~Expired(rows[i].expires_at, now)
                          /\ ~JsonLoads(rows[i].value_json).ok}

PyCircular == [t |-> "circular", v |-> <<>>]

\* set(k, v, ttl > 0) with a v in which json.dumps meets a circular reference:
\* `except TypeError` (cache.py 66, 230) does not catch the ValueError, which
\* leaves set before the lock is taken
SetCircular(k, ttl) ==
    /\ TtlCaches(ttl)
    /\ last' = [NoOp EXCEPT !.op = "set", !.key = k, !.value = PyCircular, !.ttl = ttl,
                            !.until = now + ttl, !.exc = "ValueError"]
    /\ UNCHANGED <<now, backend, maxsize, data, rows, hits, misses, lru, deadline, clientVars, auxVars>>

NextEncode ==
    \/ Tick
    \/ \E k \in StoreKeys, at \in 0..MaxTime : MemGet(k, at)
    \/ \E k \in StoreKeys : SqlGet(k)
    \/ \E k \in StoreKeys, v \in Values, ttl \in Ttls : SetNotSerializable(k, v, ttl)
    \/ \E k \in StoreKeys, ttl \in Ttls : SetCircular(k, ttl)
    \/ \E k \in StoreKeys, v \in Values, ttl \in Ttls, at \in 0..MaxTime : MemSet(k, v, ttl, at)
    \/ \E k \in StoreKeys, v \in Values, ttl \in Ttls : SqlSet(k, v, ttl)

SpecEncode == InitStore /\ [][NextEncode]_vars

\* C16 (both backends): set(k, v, ttl > 0) with a value json.dumps does not
\* encode returns without raising and leaves the entries, their expiry and
\* recency and the hit and miss counters as they were
C16_NotEncodableSkipped ==
    [][(/\ last'.op = "set"
        /\ last'.ttl > 0
        /\ ~Serializable(last'.value)) =>
            /\ last'.exc = "none"
            /\ data' = data
            /\ rows' = rows
            /\ lru' = lru
            /\ deadline' = deadline
            /\ hits' = hits
            /\ misses' = misses]_vars

\* C16 for the values json.dumps rejects with TypeError
C16_TypeErrorSkipped ==
    [][(/\ last'.op = "set"
        /\ last'.ttl > 0
        /\ last'.value = PyObject) =>
            /\ last'.exc = "none"
            /\ data' = data
            /\ rows' = rows
            /\ lru' = lru
            /\ deadline' = deadline
            /\ hits' = hits
            /\ misses' = misses]_vars

(***************************************************************************)
(* One SQLiteCache shared by the threads of Threads. set is two            *)
(* statements under the lock, the upsert and the prune (autocommit: the    *)
(* row is in the table between them); get, set and clear of another thread *)
(* wait for the lock; stats takes no lock. sqlite3 lets only the thread    *)
(* that opened the connection execute statements on it.                    *)
(***************************************************************************)
\* set(k, v, ttl) on the owner's thread up to its INSERT (cache.py 237-248)
SetUpserts(k, v, ttl) ==
    /\ backend = "sqlite"
    /\ inflight = NoSet
    /\ TtlCaches(ttl)
    /\ Serializable(v)
    /\ rows' = Upsert(rows, [key_text |-> TextOf(k), expires_at |-> now + ttl,
                             last_access |-> now, value_json |-> JsonDumps(v)])
    /\ inflight' = [key |-> k, value |-> v, ttl |-> ttl]
    /\ UNCHANGED <<now, backend, maxsize, data, hits, misses, last, lru, deadline,
                   clientVars, derived, twin, sideVars>>

\* the same set prunes and returns (cache.py 249)
SetPrunes ==
    /\ inflight # NoSet
    /\ rows' = _prune_if_needed(rows, maxsize)
    /\ History(Touch(lru, inflight.key),
               [deadline EXCEPT ![inflight.key] = now + inflight.ttl], SqlKeys(rows'))
    /\ last' = [NoOp EXCEPT !.op = "set", !.key = inflight.key,
                            !.value = inflight.value, !.ttl = inflight.ttl,
                            !.until = now + inflight.ttl]
    /\ inflight' = NoSet
    /\ UNCHANGED <<now, backend, maxsize, data, hits, misses, clientVars, derived, twin, sideVars>>

\* stats() on thread t (cache.py 270-280): no lock, so another thread's call
\* can run while the owner is inside set
StatsOn(t) ==
    /\ backend = "sqlite"
    /\ t = Owner => inflight = NoSet
    /\ last' = IF MayUseConn(t)
               THEN [NoOp EXCEPT !.op = "stats", !.ret = PyInt(Len(rows))]
               ELSE [NoOp EXCEPT !.op = "stats", !.exc = "ProgrammingError"]
    /\ UNCHANGED <<now, backend, maxsize, data, rows, hits, misses, lru, deadline,
                   clientVars, auxVars>>

InitThreads == InitStore /\ backend = "sqlite"

NextThreads ==
    \/ inflight = NoSet /\ Tick
    \/ \E k \in StoreKeys : inflight = NoSet /\ SqlGet(k)
    \/ \E k \in StoreKeys, v \in Values, ttl \in Ttls : SetUpserts(k, v, ttl)
    \/ SetPrunes
    \/ \E t \in Threads : StatsOn(t)
    \/ \E t \in Threads, op \in {"get", "set"} : inflight = NoSet /\ SqlWrongThread(t, op)

SpecThreads == InitThreads /\ [][NextThreads]_vars

\* C17: for one SQLiteCache shared by several threads calling set, get and
\* stats on overlapping keys, no stats() that returns reports a size above
\* maxsize, and the row count is at most maxsize whenever no set is under way
C17_SizeWithinMaxsize ==
    /\ (last.op = "stats" /\ last.exc = "none") => last.ret.v[1] <= maxsize
    /\ inflight = NoSet => Len(rows) <= maxsize

\* a set in a full store has inserted its row, the table holds maxsize + 1
\* rows, and a stats() of another thread has run at that moment
C17_Witness ==
    /\ maxsize = 2
    /\ inflight # NoSet
    /\ Len(rows) = maxsize + 1
    /\ last.op = "stats"
    /\ last.exc = "ProgrammingError"

(***************************************************************************)
(* A MemoryCache and a SQLiteCache of the same maxsize given the same      *)
(* calls, each call reading a clock one later than the one before.         *)
(***************************************************************************)
TwinKeys == {KeyA, KeyB}
TwinTtls == {0, 1, MaxCalls}

InitTwin ==
    /\ now = 0
    /\ backend = "both"
    /\ maxsize \in Maxsizes
    /\ data = <<>>
    /\ rows = <<>>
    /\ hits = 0
    /\ misses = 0
    /\ last = NoOp
    /\ lru = <<>>
    /\ deadline = [k \in StoreKeys |-> NoDeadline]
    /\ cfg = CacheConfig
    /\ call = NoCall
    /\ first = NoFetch
    /\ derived = NoKeys
    /\ inflight = NoSet
    /\ twin = NoTwin
    /\ Idle

\* the call reads the clock at now + 1
Called ==
    /\ now < MaxCalls
    /\ now' = now + 1
    /\ UNCHANGED <<backend, maxsize, lru, deadline, clientVars, derived, inflight, sideVars>>

\* get(k) came to m on the MemoryCache and to q on the SQLiteCache
TwinGot(k, m, q) ==
    /\ data' = m.data
    /\ rows' = q.rows
    /\ hits' = IF m.hit THEN hits + 1 ELSE hits
    /\ misses' = IF m.hit THEN misses ELSE misses + 1
    /\ last' = [NoOp EXCEPT !.op = "get", !.key = k, !.ret = m.ret, !.hit = m.hit]
    /\ twin' = [hits |-> IF q.hit THEN twin.hits + 1 ELSE twin.hits,
                misses |-> IF q.hit THEN twin.misses ELSE twin.misses + 1,
                ret |-> q.ret]

TwinGet(k) ==
    /\ Called
    /\ TwinGot(k, MemoryCache_get(data, k, now + 1), SQLiteCache_get(rows, k, now + 1))

TwinSet(k, v, ttl) ==
    /\ Called
    /\ data' = IF TtlCaches(ttl) /\ Serializable(v)
               THEN MemoryCache_set(data, k, v, now + 1 + ttl, maxsize) ELSE data
    /\ rows' = IF TtlCaches(ttl) /\ Serializable(v)
               THEN SQLiteCache_set(rows, k, v, now + 1, ttl, maxsize) ELSE rows
    /\ last' = [NoOp EXCEPT !.op = "set", !.key = k, !.value = v, !.ttl = ttl]
    /\ twin' = [twin EXCEPT !.ret = PyNone]
    /\ UNCHANGED <<hits, misses>>

\* MemoryCache.clear (cache.py 37-41) and SQLiteCache.clear (cache.py 184-186)
TwinClear ==
    /\ Called
    /\ data' = <<>>
    /\ hits' = 0
    /\ misses' = 0
    /\ rows' = <<>>
    /\ last' = [NoOp EXCEPT !.op = "clear"]
    /\ twin' = [twin EXCEPT !.ret = PyNone]

\* stats(): the "size" each reports; "hits" and "misses" are the counters
TwinStats ==
    /\ Called
    /\ last' = [NoOp EXCEPT !.op = "stats", !.ret = PyInt(Len(data))]
    /\ twin' = [twin EXCEPT !.ret = PyInt(Len(rows))]
    /\ UNCHANGED <<data, rows, hits, misses>>

NextTwin ==
    \/ \E k \in TwinKeys : TwinGet(k)
    \/ \E k \in TwinKeys, v \in Values, ttl \in TwinTtls : TwinSet(k, v, ttl)
    \/ TwinClear
    \/ TwinStats

SpecTwin == InitTwin /\ [][NextTwin]_vars

\* C18: MemoryCache and SQLiteCache given the same get, set, clear and stats
\* calls with the same strictly increasing clock readings and the same maxsize
\* return the same result for every get and report the same size, hits and
\* misses in every stats
C18_SameContract ==
    /\ last.op = "get" => twin.ret = last.ret
    /\ last.op = "stats" =>
            /\ twin.ret = last.ret
            /\ twin.hits = hits
            /\ twin.misses = misses

\* C18 for what the two stores share: every get returns the same value up to
\* JSON decoding, every stats reports the same size, and the stores hold the
\* same number of entries after every call
C18_SameUpToDecoding ==
    /\ last.op = "get" => twin.ret = JsonNative(last.ret)
    /\ last.op = "stats" => twin.ret = last.ret
    /\ Len(data) = Len(rows)

\* C19: clear() on either backend removes every entry and resets the hit and
\* miss counters, so a stats() taken directly afterwards reports size 0, hits 0
\* and misses 0 and a get directly afterwards returns absent
C19_ClearResets ==
    [][/\ last'.op = "clear" =>
            /\ data' = <<>>
            /\ rows' = <<>>
            /\ hits' = 0 /\ misses' = 0
            /\ twin'.hits = 0 /\ twin'.misses = 0
       /\ (last.op = "clear" /\ last'.op = "stats") =>
            /\ last'.ret = PyInt(0) /\ hits' = 0 /\ misses' = 0
            /\ twin'.ret = PyInt(0) /\ twin'.hits = 0 /\ twin'.misses = 0
       /\ (last.op = "clear" /\ last'.op = "get") =>
            /\ last'.ret = PyNone
            /\ twin'.ret = PyNone]_vars

\* C19 for what clear() does on both backends: it removes every entry, so a
\* stats() directly afterwards reports size 0 and a get directly afterwards
\* returns absent and counts a miss; MemoryCache.clear also resets its
\* counters, SQLiteCache.clear leaves its counters as they were
C19_ClearEmpties ==
    [][/\ last'.op = "clear" =>
            /\ data' = <<>>
            /\ rows' = <<>>
            /\ hits' = 0 /\ misses' = 0
            /\ twin'.hits = twin.hits /\ twin'.misses = twin.misses
       /\ (last.op = "clear" /\ last'.op = "stats") =>
            /\ last'.ret = PyInt(0) /\ hits' = 0 /\ misses' = 0
            /\ twin'.ret = PyInt(0)
       /\ (last.op = "clear" /\ last'.op = "get") =>
            /\ last'.ret = PyNone /\ misses' = 1
            /\ twin'.ret = PyNone /\ twin'.misses = twin.misses + 1]_vars

(***************************************************************************)
(* The retrying transport: the adapter _retry_adapter mounts on the        *)
(* client's session (http.py 30-45, 87-89) and one request passing through *)
(* it.  Session.get hands the adapter's send the keyword arguments of the  *)
(* call, `timeout` among them whatever its value; urllib3's Retry decides  *)
(* after each attempt whether the request is sent again.                   *)
(***************************************************************************)
DEFAULT_TIMEOUT == 10
RetryTotal == 5
StatusForcelist == {429, 500, 502, 503, 504}
AllowedMethods == {"GET", "POST", "PATCH", "DELETE"}

Methods == AllowedMethods \cup {"PUT"}
Statuses == {200, 404} \cup StatusForcelist
\* the `timeout` a caller gives a client operation; None when it gives none
TimeoutArgs == {PyNone, PyInt(3)}
ErrorKinds == {"connect", "read"}

\* session.get(url, timeout=timeout): the keyword arguments send receives
SendKwargs(timeout) == Dict(<< <<"timeout", timeout>> >>)

\* TimeoutAdapter.send: kwargs.setdefault("timeout", timeout)
SendTimeout(timeout) ==
    DictGet(SetDefault(SendKwargs(timeout), "timeout", PyInt(DEFAULT_TIMEOUT)),
            "timeout", PyNone)

\* Retry(total=5, ...): another attempt may follow `attempts` attempts
RetriesLeft(attempts) == attempts <= RetryTotal

\* Retry.is_retry: the status is in status_forcelist and the method allowed
IsRetry(method, status) == method \in AllowedMethods /\ status \in StatusForcelist

\* backoff_factor=0.5: the sleep, in seconds, before attempt n + 1
Backoff(n) == IF n <= 1 THEN 0 ELSE 2 ^ (n - 2)

InitTransport ==
    /\ now = 0
    /\ backend = "memory"
    /\ maxsize = 0
    /\ data = <<>>
    /\ rows = <<>>
    /\ hits = 0
    /\ misses = 0
    /\ last = NoOp
    /\ lru = <<>>
    /\ deadline = [k \in StoreKeys |-> NoDeadline]
    /\ cfg = CacheConfig
    /\ call = NoCall
    /\ first = NoFetch
    /\ derived = NoKeys
    /\ inflight = NoSet
    /\ twin = NoTwin
    /\ Idle

Transported == UNCHANGED <<storeVars, clientVars, derived, inflight, twin, opts, pushed, exec, client, origin, pool>>

\* a client operation (GET, http.py 151) or a caller of client.session sends
\* a request; the client's operations pass their own timeout argument
Request(method, timeout) ==
    /\ wire.outcome \in {"idle", "returned", "raised"}
    /\ wire' = [NoWire EXCEPT !.method = method, !.arg = timeout,
                              !.timeout = SendTimeout(timeout),
                              !.attempts = 1, !.outcome = "sent"]
    /\ Transported

\* the server answers with a status the policy retries: sleep, send again
SentAgain(status) ==
    /\ wire.outcome = "sent"
    /\ IsRetry(wire.method, status)
    /\ RetriesLeft(wire.attempts)
    /\ wire' = [wire EXCEPT !.attempts = @ + 1, !.status = status,
                            !.slept = Backoff(wire.attempts)]
    /\ Transported

\* the server answers and the response goes back (raise_on_status=False)
Answered(status) ==
    /\ wire.outcome = "sent"
    /\ ~(IsRetry(wire.method, status) /\ RetriesLeft(wire.attempts))
    /\ wire' = [wire EXCEPT !.status = status, !.outcome = "answered"]
    /\ Transported

\* the connection fails, or the response does not come within the timeout:
\* retried while retries are left (a read failure only for an allowed
\* method), raised to the caller otherwise
Failed(kind) ==
    /\ wire.outcome = "sent"
    /\ kind = "read" => wire.timeout # PyNone
    /\ wire' = IF RetriesLeft(wire.attempts)
                  /\ (kind = "connect" \/ wire.method \in AllowedMethods)
               THEN [wire EXCEPT !.attempts = @ + 1, !.status = 0,
                                 !.slept = Backoff(wire.attempts)]
               ELSE [wire EXCEPT !.status = 0, !.outcome = "raised"]
    /\ Transported

\* no timeout: the server never answers and the caller waits
Blocked ==
    /\ wire.outcome = "sent"
    /\ wire.timeout = PyNone
    /\ wire' = [wire EXCEPT !.outcome = "blocked"]
    /\ Transported

\* response.raise_for_status() in the client's operations (http.py 152)
RaiseForStatus ==
    /\ wire.outcome = "answered"
    /\ wire' = [wire EXCEPT !.outcome = IF wire.method = "GET" /\ wire.status >= 400
                                       THEN "raised" ELSE "returned"]
    /\ Transported

NextTransport ==
    \/ \E m \in Methods, t \in TimeoutArgs : Request(m, t)
    \/ \E st \in Statuses : SentAgain(st)
    \/ \E st \in Statuses : Answered(st)
    \/ \E kind \in ErrorKinds : Failed(kind)
    \/ Blocked
    \/ RaiseForStatus

SpecTransport == InitTransport /\ [][NextTransport]_vars

\* a request is on its way or has ended
OnWire == wire.outcome # "idle"

\* C21: every request a client operation sends carries a finite timeout, 10
\* seconds when the caller passes none, so no request blocks without bound
C21_FiniteTimeout ==
    OnWire /\ wire.method = "GET" =>
        /\ wire.timeout # PyNone
        /\ wire.arg = PyNone => wire.timeout = PyInt(DEFAULT_TIMEOUT)
        /\ wire.outcome # "blocked"

\* C21 for what the adapter does: the request carries the timeout the caller
\* passed, None (no timeout) when the caller passed none, and only a request
\* without a timeout waits without bound
C21_TimeoutAsPassed ==
    OnWire =>
        /\ wire.timeout = wire.arg
        /\ wire.outcome = "blocked" => wire.arg = PyNone

\* a client operation called without a timeout waits for a server that never
\* answers
C21_Witness ==
    /\ wire.method = "GET"
    /\ wire.arg = PyNone
    /\ wire.outcome = "blocked"

\* the request was sent again after a response
SentAgainOnStatus == wire.outcome = "sent" /\ wire.attempts > 1 /\ wire.status # 0

\* C22: the transport retries GET requests only: a 429, 500, 502, 503 or 504
\* response is retried with exponential backoff at most 5 times, a request of
\* another method is never sent again, and when the retries are used up the
\* failing status or transport error reaches the caller as an error
C22_RetriesOnlyGet ==
    /\ wire.attempts <= RetryTotal + 1
    /\ SentAgainOnStatus =>
         /\ wire.method = "GET"
         /\ wire.status \in StatusForcelist
         /\ wire.slept = Backoff(wire.attempts - 1)
    /\ wire.method = "GET" /\ wire.outcome = "returned" => wire.status = 200

\* C22 for the policy the adapter is built with: a 429, 500, 502, 503 or 504
\* response to a GET, POST, PATCH or DELETE request is retried with
\* exponential backoff at most 5 times, a response to any other method never;
\* when a client operation's retries are used up the failing status or the
\* transport error is raised to its caller
C22_RetryPolicy ==
    /\ wire.attempts <= RetryTotal + 1
    /\ SentAgainOnStatus =>
         /\ wire.method \in AllowedMethods
         /\ wire.status \in StatusForcelist
         /\ wire.slept = Backoff(wire.attempts - 1)
    /\ wire.outcome = "answered" /\ IsRetry(wire.method, wire.status) =>
         wire.attempts = RetryTotal + 1
    /\ wire.method = "GET" /\ wire.outcome = "returned" => wire.status = 200
    /\ wire.method = "GET" /\ wire.outcome = "raised" =>
         wire.status \in {0, 404} \cup StatusForcelist

\* a client operation's request was answered 503 six times and the status
\* was raised to the caller
C22_Witness ==
    /\ wire.method = "GET"
    /\ wire.attempts = RetryTotal + 1
    /\ wire.status = 503
    /\ wire.slept = 8
    /\ wire.outcome = "raised"

(***************************************************************************)
(* GristAPIAdapter.__init__ resolving the cache options from the URI query *)
(* (a parse_qs mapping: each value a list of strings) and cache_cfg        *)
(* (adapter.py 158-230, 276-306).                                          *)
(***************************************************************************)
\* str(v).strip().lower() on the strings of the model
StripLower(s) ==
    CASE s = "True" -> "true"
      [] OTHER -> s

\* int(v) on the strings of the model: the decimal texts, ValueError otherwise
IntTexts == (("0" :> 0) @@ ("5" :> 5)) @@ ("7" :> 7)

\* str(v)
Str(v) ==
    CASE v.t = "str" -> v.v[1]
      [] v.t = "int" -> ToString(v.v[1])
      [] OTHER -> "?"

_qs_get(qs, key, default) ==
    IF DictGet(qs, key, default).t = "list"
    THEN DictGet(qs, key, default).v[1] ELSE DictGet(qs, key, default)

_to_bool(v) ==
    IF v.t = "bool" THEN v
    ELSE IF v = PyNone THEN PyNone
    ELSE PyBool(StripLower(Str(v)) \in {"1", "true", "yes", "on"})

_to_int(v) ==
    CASE v = PyNone -> PyNone
      [] v.t = "int" -> v
      [] v.t = "bool" -> PyInt(IF v.v[1] THEN 1 ELSE 0)
      [] v.t = "str" -> IF v.v[1] \in DOMAIN IntTexts THEN PyInt(IntTexts[v.v[1]]) ELSE PyNone
      [] OTHER -> PyNone

_get_str_param(query_params, cache_cfg, key, default) ==
    _qs_get(query_params, key, DictGet(cache_cfg, key, default))

_get_int_param(query_params, cache_cfg, key, default) ==
    Or(_to_int(_qs_get(query_params, key, DictGet(cache_cfg, key, default))), default)

\* the value parsed when there is one to parse
Parsed_bool(val) == IF val # PyNone THEN _to_bool(val) ELSE PyNone

_get_bool_param(query_params, cache_cfg, key, default) ==
    IF Parsed_bool(_qs_get(query_params, key, DictGet(cache_cfg, key, default))) = PyNone
    THEN default
    ELSE Parsed_bool(_qs_get(query_params, key, DictGet(cache_cfg, key, default)))

\* adapter.py 223-230
enabled_val(qs, cc) == _get_bool_param(qs, cc, "enabled", PyBool(TRUE))
metadata_ttl_val(qs, cc) == _get_int_param(qs, cc, "metadata_ttl", PyInt(300))
records_ttl_val(qs, cc) == _get_int_param(qs, cc, "records_ttl", PyInt(60))
maxsize_val(qs, cc) == _get_int_param(qs, cc, "maxsize", PyInt(1024))
backend_val(qs, cc) == Or(_get_str_param(qs, cc, "backend", PyStr("sqlite")), PyStr("sqlite"))

\* the URI query values and the cache_cfg values of the options
Qs(s) == PyList(<<PyStr(s)>>)
QsBools == {Absent, Qs("false"), Qs("True")}
QsInts == {Absent, Qs("0"), Qs("5")}
QsBackends == {Absent, Qs("memory")}
CfgBools == {Absent, PyBool(FALSE)}
CfgInts == {Absent, PyInt(0), PyInt(7)}
CfgBackends == {Absent, PyStr("memory"), PyStr("sqlite")}

Options(e, m, r, s, b) ==
    PyDict(Entry("enabled", e) \o Entry("metadata_ttl", m) \o Entry("records_ttl", r)
           \o Entry("maxsize", s) \o Entry("backend", b))

InitOptions ==
    /\ now = 0
    /\ backend = "memory"
    /\ maxsize = 0
    /\ data = <<>>
    /\ rows = <<>>
    /\ hits = 0
    /\ misses = 0
    /\ last = NoOp
    /\ lru = <<>>
    /\ deadline = [k \in StoreKeys |-> NoDeadline]
    /\ cfg = CacheConfig
    /\ call = NoCall
    /\ first = NoFetch
    /\ derived = NoKeys
    /\ inflight = NoSet
    /\ twin = NoTwin
    /\ wire = NoWire
    /\ pushed = NoPushed
    /\ exec = NoExec
    /\ origin = NoOrigin
    /\ pool = NoPool
    /\ client = NoClient
    /\ \E e \in QsBools, m \in QsInts, r \in QsInts, s \in QsInts, b \in QsBackends,
          ce \in CfgBools, cm \in CfgInts, cr \in CfgInts, cs \in CfgInts, cb \in CfgBackends :
         opts = [query_params |-> Options(e, m, r, s, b),
                 cache_cfg |-> Options(ce, cm, cr, cs, cb),
                 stage |-> "given"]

\* GristAPIAdapter.__init__: CacheConfig(...) handed to GristClient, which
\* builds the store of that backend and maxsize
AdapterInit ==
    /\ opts.stage = "given"
    /\ cfg' = Cfg(enabled_val(opts.query_params, opts.cache_cfg).v[1],
                  metadata_ttl_val(opts.query_params, opts.cache_cfg).v[1],
                  records_ttl_val(opts.query_params, opts.cache_cfg).v[1])
    /\ maxsize' = maxsize_val(opts.query_params, opts.cache_cfg).v[1]
    /\ backend' = backend_val(opts.query_params, opts.cache_cfg).v[1]
    /\ opts' = [opts EXCEPT !.stage = "built"]
    /\ UNCHANGED <<now, data, rows, hits, misses, last, lru, deadline, call, first,
                   derived, inflight, twin, wire, pushed, exec, client, origin, pool>>

NextOptions == AdapterInit

SpecOptions == InitOptions /\ [][NextOptions]_vars

\* the value of highest precedence: the URI query's, else cache_cfg's, else
\* the default
Preferred(key, default) ==
    IF DictHas(opts.query_params, key) THEN DictGet(opts.query_params, key, Absent).v[1]
    ELSE IF DictHas(opts.cache_cfg, key) THEN DictGet(opts.cache_cfg, key, Absent)
    ELSE default
OptionsBuilt == opts.stage = "built"

\* C23: each cache option resolves to the URI query value when one is given,
\* else to the cache_cfg value when one is given, else to the default, for
\* every value of the option, records_ttl = 0 included
C23_Precedence ==
    OptionsBuilt =>
        /\ PyBool(cfg.enabled) = _to_bool(Preferred("enabled", PyBool(TRUE)))
        /\ PyInt(cfg.metadata_ttl) = _to_int(Preferred("metadata_ttl", PyInt(300)))
        /\ PyInt(cfg.records_ttl) = _to_int(Preferred("records_ttl", PyInt(60)))
        /\ PyInt(maxsize) = _to_int(Preferred("maxsize", PyInt(1024)))
        /\ PyStr(backend) = Preferred("backend", PyStr("sqlite"))

\* the int option as the adapter resolves it: the value of highest precedence
\* unless that value is 0, the default then
UnlessZero(key, default) ==
    IF _to_int(Preferred(key, PyInt(default))) = PyInt(0) THEN PyInt(default)
    ELSE _to_int(Preferred(key, PyInt(default)))

\* C23 for the values the adapter passes on: enabled and backend resolve by
\* precedence; an int option resolves by precedence unless the value so found
\* is 0, which resolves to the built-in default
C23_PrecedenceUnlessZero ==
    OptionsBuilt =>
        /\ PyBool(cfg.enabled) = _to_bool(Preferred("enabled", PyBool(TRUE)))
        /\ PyInt(cfg.metadata_ttl) = UnlessZero("metadata_ttl", 300)
        /\ PyInt(cfg.records_ttl) = UnlessZero("records_ttl", 60)
        /\ PyInt(maxsize) = UnlessZero("maxsize", 1024)
        /\ PyStr(backend) = Preferred("backend", PyStr("sqlite"))

\* the URI query asked for records_ttl = 0 over a cache_cfg value of 7 and the
\* client was built with 60
C23_Witness ==
    /\ OptionsBuilt
    /\ DictGet(opts.query_params, "records_ttl", Absent) = PyList(<<PyStr("0")>>)
    /\ DictGet(opts.cache_cfg, "records_ttl", Absent) = PyInt(7)
    /\ cfg.records_ttl = 60

(***************************************************************************)
(* GristAPIAdapter.get_rows on a table URI: the query's bounds, order and  *)
(* limit become the params of one iter_records call (adapter.py 538-590,   *)
(* 792-801), which sends them in its /records request on a cache miss.     *)
(***************************************************************************)
\* shillelagh's filters: Equal(value) and any other kind
PyEqual(value) == [t |-> "Equal", v |-> <<value>>]
PyRange == [t |-> "Range", v |-> <<>>]

Columns == {"amount", "name"}
BoundFilters == {PyEqual(PyStr("Alice")), PyEqual(PyInt(1)), PyRange}
\* Order.ASCENDING.name, Order.DESCENDING.name
Directions == {"ASCENDING", "DESCENDING"}
PushLimits == {PyNone, PyInt(0), PyInt(5)}

\* the bounds mappings and the order lists over at most two columns
BoundsOver(cols) ==
    {PyDict([i \in 1..Len(cols) |-> <<PyStr(cols[i]), f[i]>>]) :
        f \in [1..Len(cols) -> BoundFilters]}
OrderOver(cols) ==
    {[i \in 1..Len(cols) |-> <<cols[i], d[i]>>] : d \in [1..Len(cols) -> Directions]}
ColumnLists ==
    {<<>>} \cup {<<c>> : c \in Columns}
    \cup {cs \in Columns \X Columns : cs[1] # cs[2]}

\* a variant that drops the sign of a descending column
_order_to_sort_string_Unsigned(order) ==
    IF order = <<>> THEN PyNone
    ELSE PyStr(Join([i \in 1..Len(order) |-> order[i][1]], ","))

_order_to_sort_string(order) ==
    IF order = <<>> THEN PyNone
    ELSE PyStr(Join([i \in 1..Len(order) |->
                        IF order[i][2] = "ASCENDING" THEN order[i][1]
                        ELSE "-" \o order[i][1]], ","))

\* a bound that is not an Equal
Unsupported(bounds) == \E i \in 1..Len(bounds.v) : bounds.v[i][2].t # "Equal"

\* filter_obj[col] = [f.value]
filter_obj(bounds) ==
    PyDict([i \in 1..Len(bounds.v) |-> <<bounds.v[i][1], PyList(<<bounds.v[i][2].v[1]>>)>>])

PushFilter(params, obj) ==
    IF Truthy(obj) THEN DictSet(params, "filter", JsonStr(JsonDumps(obj))) ELSE params
PushSort(params, sort_str) ==
    IF Truthy(sort_str) THEN DictSet(params, "sort", sort_str) ELSE params
PushLimit(params, limit) ==
    IF limit # PyNone THEN DictSet(params, "limit", limit) ELSE params

_build_records_params(bounds, order, limit) ==
    PushLimit(PushSort(PushFilter(PyDict(<<>>), filter_obj(bounds)),
                       _order_to_sort_string(order)), limit)

InitPushdown ==
    /\ now = 0
    /\ backend = "memory"
    /\ maxsize = 0
    /\ data = <<>>
    /\ rows = <<>>
    /\ hits = 0
    /\ misses = 0
    /\ last = NoOp
    /\ lru = <<>>
    /\ deadline = [k \in StoreKeys |-> NoDeadline]
    /\ cfg = CacheConfig
    /\ call = NoCall
    /\ first = NoFetch
    /\ derived = NoKeys
    /\ inflight = NoSet
    /\ twin = NoTwin
    /\ wire = NoWire
    /\ opts = NoOpts
    /\ exec = NoExec
    /\ origin = NoOrigin
    /\ pool = NoPool
    /\ client = NoClient
    /\ \E bc \in ColumnLists, oc \in ColumnLists :
         \E b \in BoundsOver(bc), o \in OrderOver(oc), l \in PushLimits :
            pushed = [NoPushed EXCEPT !.bounds = b, !.order = o, !.limit = l,
                                      !.stage = "query"]

Pushing == UNCHANGED <<storeVars, clientVars, derived, inflight, twin, wire, opts, exec, client, origin, pool>>

\* get_rows with a bound that is not Equal: _build_records_params raises
GetRowsUnsupported ==
    /\ pushed.stage = "query"
    /\ Unsupported(pushed.bounds)
    /\ pushed' = [pushed EXCEPT !.stage = "raised", !.exc = "ProgrammingError"]
    /\ Pushing

\* get_rows: the params are built and iter_records sends them (hidden=True)
GetRows ==
    /\ pushed.stage = "query"
    /\ ~Unsupported(pushed.bounds)
    /\ pushed' = [pushed EXCEPT
            !.stage = "requested",
            !.params = _build_records_params(pushed.bounds, pushed.order, pushed.limit),
            !.request = RecordsRequest(_build_records_params(pushed.bounds, pushed.order,
                                                             pushed.limit), TRUE),
            !.sent = 1]
    /\ Pushing

NextPushdown == GetRowsUnsupported \/ GetRows

SpecPushdown == InitPushdown /\ [][NextPushdown]_vars

\* the sort text for an order list: the columns, a descending one signed
Signed(o) == IF o[2] = "DESCENDING" THEN "-" \o o[1] ELSE o[1]
RECURSIVE SortText(_)
SortText(order) ==
    IF Len(order) = 1 THEN Signed(order[1])
    ELSE Signed(order[1]) \o "," \o SortText(Tail(order))

\* the filter object for a mapping of Equal bounds
EqualLists(bounds) ==
    PyDict([i \in 1..Len(bounds.v) |-> <<bounds.v[i][1], PyList(bounds.v[i][2].v)>>])

C24_WitnessUnsupported ==
    /\ pushed.stage = "raised"
    /\ pushed.sent = 0

(***************************************************************************)
(* GristClient.__init__ choosing the cache backend (http.py 91-102) and    *)
(* the client then used for list_orgs, iter_records and clear_cache.       *)
(* Until the client is built `backend` holds CacheConfig.backend, from     *)
(* then on the kind of store the client holds.                             *)
(***************************************************************************)
ConfigBackends == {"memory", "sqlite", "redis"}
ConfigPaths == {PyNone, PyStr(""), PyStr("p")}

\* a variant that only misses a path that is None
PathMissing_NoneOnly(c, b, path) == c.enabled /\ b = "sqlite" /\ path = PyNone

\* cfg.cache.enabled, backend == "sqlite" and `not cfg.cache.path`
PathMissing(c, b, path) == c.enabled /\ b = "sqlite" /\ ~Truthy(path)

InitOwner ==
    /\ now = 0
    /\ backend \in ConfigBackends
    /\ maxsize \in {1, 2}
    /\ data = <<>>
    /\ rows = <<>>
    /\ hits = 0
    /\ misses = 0
    /\ last = NoOp
    /\ lru = <<>>
    /\ deadline = [k \in StoreKeys |-> NoDeadline]
    /\ cfg \in {Cfg(TRUE, 1, 1), Cfg(FALSE, 1, 1)}
    /\ call = NoCall
    /\ first = NoFetch
    /\ derived = NoKeys
    /\ inflight = NoSet
    /\ twin = NoTwin
    /\ wire = NoWire
    /\ opts = NoOpts
    /\ pushed = NoPushed
    /\ exec = NoExec
    /\ origin = NoOrigin
    /\ pool = NoPool
    /\ \E path \in ConfigPaths :
         client = [state |-> "unbuilt", path |-> path, store |-> 0, made |-> 0,
                   exc |-> "none"]

\* GristClient.__init__
Construct ==
    /\ client.state = "unbuilt"
    /\ client' =
         IF PathMissing(cfg, backend, client.path)
         THEN [client EXCEPT !.state = "failed", !.exc = "ValueError"]
         ELSE IF cfg.enabled
         THEN [client EXCEPT !.state = "built", !.store = client.made + 1,
                             !.made = client.made + 1]
         ELSE [client EXCEPT !.state = "built"]
    /\ backend' = IF backend = "sqlite" THEN "sqlite" ELSE "memory"
    /\ UNCHANGED <<now, maxsize, data, rows, hits, misses, last, lru, deadline,
                   clientVars, derived, inflight, twin, wire, opts, pushed, exec,
                   origin, pool>>

\* clear_cache on a client without a store: `if self._cache_backend:` fails
ClearCacheNoStore ==
    /\ ~cfg.enabled
    /\ call' = [NoCall EXCEPT !.op = "clear_cache", !.outcome = "returned"]
    /\ UNCHANGED <<storeVars, cfg, first, auxVars>>

NextOwner ==
    \/ Construct
    \/ client.state = "built" /\ Tick
    \/ client.state = "built" /\ ClearCache
    \/ client.state = "built" /\ ClearCacheNoStore
    \/ client.state = "built" /\ \E o \in Outcomes : ListOrgs(o)
    \/ client.state = "built" /\
         \E doc_id \in DocIds, table_id \in TableIds, o \in Outcomes :
            IterRecords(doc_id, table_id, TRUE, PyNone, TRUE, o)

SpecOwner == InitOwner /\ [][NextOwner]_vars

\* the step is GristClient.__init__
Constructing == client.state = "unbuilt" /\ client'.state # "unbuilt"

\* C25: constructing a client with cache enabled, backend 'sqlite' and no path
\* fails with ValueError; a constructed client holds at most one store, made
\* during construction and never replaced by a later operation; with cache
\* disabled there is no store, every operation goes to the network and
\* clear_cache() has no effect
C25_StoreOwnership ==
    [][/\ Constructing =>
            /\ client'.state = "failed"
                 <=> (cfg.enabled /\ backend = "sqlite" /\ client.path \in {PyNone, PyStr("")})
            /\ client'.state = "failed" => client'.exc = "ValueError" /\ client'.store = 0
            /\ client'.state = "built" => (client'.store = 0 <=> ~cfg.enabled)
       /\ client'.made <= 1
       /\ client'.store # 0 => client'.made = 1
       /\ client.state = "built" =>
            /\ client'.state = "built"
            /\ client'.store = client.store
            /\ client'.made = client.made
       /\ client.state = "built" /\ ~cfg.enabled =>
            /\ CallStep => call'.sent >= 1
            /\ UNCHANGED <<data, rows, hits, misses>>
            /\ data = <<>> /\ rows = <<>>]_vars

\* a client built without a store has completed a list_orgs call by a request
\* after the clock has moved
C25_Witness ==
    /\ client.state = "built"
    /\ client.store = 0
    /\ ~cfg.enabled
    /\ call.op = "list_orgs"
    /\ call.sent = 1
    /\ now > 0

\* a construction has failed for want of a path
C25_WitnessFailed ==
    /\ client.state = "failed"
    /\ client.path = PyStr("")
    /\ client.exc = "ValueError"

(***************************************************************************)
(* The arguments of iter_records that its cache key leaves out.            *)
(***************************************************************************)
\* the step is an iter_records call served from the entry that the call
\* before it fetched and stored
HitAfterFetch ==
    /\ CallStep
    /\ call.op = "iter_records" /\ call.outcome = "returned" /\ call.sent = 1
    /\ call'.op = "iter_records" /\ call'.outcome = "returned" /\ call'.sent = 0
    /\ KeyOf(TheCall) = KeyOf([op |-> call.op, args |-> call.args])

\* C26: two iter_records calls that derive the same cache key send the same
\* query parameters and decode rows the same way: a call is never served rows
\* that were fetched under another `hidden` or `include_id` argument
C26_KeyDeterminesRequest ==
    [][HitAfterFetch =>
            /\ call'.args[3] = call.args[3]
            /\ call'.args[5] = call.args[5]]_vars

\* C26 for what a hit returns: the rows as the call that fetched them built
\* them, whatever the `hidden` and `include_id` arguments of the call served
C26_HitReturnsStoredRows ==
    [][HitAfterFetch => call'.result = JsonNative(call.result)]_vars

\* a call with include_id = False and hidden = False has been served rows from
\* the cache that were fetched by a call with other arguments
C26_Witness ==
    /\ call.op = "iter_records" /\ call.outcome = "returned" /\ call.sent = 0
    /\ ~call.args[3]
    /\ ~call.args[5]
    /\ first.key = KeyOf([op |-> call.op, args |-> call.args])
    /\ call.result = JsonNative(first.result)
    /\ call.result # JsonNative(RecordRows(RecordsBody("full", FALSE), FALSE))

(***************************************************************************)
(* The statements of one SQLiteCache operation, attempt by attempt: `exec` *)
(* is the operation a thread has under way, `holder` the thread that holds *)
(* SQLiteCache._lock (0 when it is free), `left` the statements the        *)
(* operation has still to run, `attempt`, `delay` and `slept` the locals   *)
(* of the _exec call in progress. Delays are counted in units of 0.05 s.   *)
(* What a statement finds in the table is the matter of the store          *)
(* specifications; here every path through an operation is taken and every *)
(* attempt may succeed, find the database busy or locked, or fail          *)
(* otherwise.                                                              *)
(***************************************************************************)
Retries == 4         \* _exec(..., retries: int = 4)
FirstDelay == 1      \* delay = 0.05, the unit of `delay` and `slept`

\* OperationalError messages with "locked" or "busy" in them (cache.py 151),
\* another OperationalError, another sqlite3.Error
BusyKinds == {"busy", "locked"}
OtherKinds == {"operational", "error"}

\* the paths through the operations and the statements each runs:
\* get: SELECT (miss), SELECT DELETE (expired), SELECT UPDATE (hit),
\* SELECT UPDATE DELETE (corrupt); set: INSERT COUNT (fits),
\* INSERT COUNT DELETE (prunes); clear: DELETE; stats: SELECT COUNT
ExecPaths ==
    {<<"get", "miss", 1>>, <<"get", "expired", 2>>, <<"get", "hit", 2>>,
     <<"get", "corrupt", 3>>, <<"set", "fits", 2>>, <<"set", "prunes", 3>>,
     <<"clear", "clear", 1>>, <<"stats", "stats", 1>>}

\* get, set and clear run inside `with self._lock`; stats does not
TakesLock(op) == op # "stats"

\* leaving `with self._lock`, by return or by exception, releases the lock;
\* and a variant that releases it on return only (acquire() ... release())
WithExit_OnReturn(holder, outcome) == IF outcome = "returned" THEN 0 ELSE holder
WithExit(holder, outcome) == 0

\* delay *= 2, and a variant that sleeps the same time before each retry
NextDelay_Same(d) == d
NextDelay(d) == d * 2

InitExec ==
    /\ now = 0
    /\ backend = "sqlite"
    /\ maxsize = 2
    /\ data = <<>>
    /\ rows = <<>>
    /\ hits = 0
    /\ misses = 0
    /\ last = NoOp
    /\ lru = <<>>
    /\ deadline = [k \in StoreKeys |-> NoDeadline]
    /\ cfg = CacheConfig
    /\ call = NoCall
    /\ first = NoFetch
    /\ derived = NoKeys
    /\ inflight = NoSet
    /\ twin = NoTwin
    /\ Idle

Executing == UNCHANGED <<now, backend, maxsize, data, rows, last, lru, deadline,
                         clientVars, derived, inflight, twin, wire, opts, pushed, client,
                         origin, pool>>

\* thread t calls get, set, clear or stats: the lock is taken (or not) and
\* the first _exec starts with attempt 0 and delay 0.05
ExecCall(p, t) ==
    /\ exec.outcome # "running"
    /\ TakesLock(p[1]) => exec.holder = 0
    /\ hits + misses < MaxLookups
    /\ exec' = [op |-> p[1], path |-> p[2], thread |-> t,
                holder |-> IF TakesLock(p[1]) THEN t ELSE exec.holder,
                left |-> p[3], attempt |-> 0, delay |-> FirstDelay, slept |-> 0,
                error |-> "none", counters |-> "untouched", outcome |-> "running"]
    /\ UNCHANGED <<hits, misses>>
    /\ Executing

\* the statement succeeds: _exec returns the cursor; after its last
\* statement get counts the hit or the miss inside the lock, stats reads
\* both counters, and the operation returns, releasing the lock it took
Executed ==
    /\ exec.outcome = "running"
    /\ MayUseConn(exec.thread)
    /\ IF exec.left > 1
       THEN /\ exec' = [exec EXCEPT !.left = @ - 1, !.attempt = 0, !.delay = FirstDelay,
                                    !.slept = 0, !.error = "none"]
            /\ UNCHANGED <<hits, misses>>
       ELSE /\ exec' = [exec EXCEPT !.left = 0, !.outcome = "returned",
                          !.holder = WithExit(@, "returned"),
                          !.counters = IF exec.op \in {"get", "stats"}
                                       THEN IF exec.holder = exec.thread
                                            THEN "locked" ELSE "unlocked"
                                       ELSE "untouched"]
            /\ hits' = IF exec.path = "hit" THEN hits + 1 ELSE hits
            /\ misses' = IF exec.op = "get" /\ exec.path # "hit" THEN misses + 1 ELSE misses
    /\ Executing

\* the statement fails with a busy/locked OperationalError: _exec sleeps
\* `delay`, doubles it and tries again while attempt < retries, and logs
\* and re-raises on the last attempt
Busy(kind) ==
    /\ exec.outcome = "running"
    /\ MayUseConn(exec.thread)
    /\ exec' = IF exec.attempt < Retries
               THEN [exec EXCEPT !.attempt = @ + 1, !.slept = @ + exec.delay,
                                 !.delay = NextDelay(@), !.error = kind]
               ELSE [exec EXCEPT !.error = kind, !.outcome = "raised",
                                 !.holder = WithExit(@, "raised")]
    /\ UNCHANGED <<hits, misses>>
    /\ Executing

\* the statement fails with any other sqlite3.Error, which is logged and
\* re-raised; on a thread other than the connection's it is the
\* ProgrammingError of every statement
Errored(kind) ==
    /\ exec.outcome = "running"
    /\ ~MayUseConn(exec.thread) => kind = "error"
    /\ exec' = [exec EXCEPT !.error = kind, !.outcome = "raised",
                             !.holder = WithExit(@, "raised")]
    /\ UNCHANGED <<hits, misses>>
    /\ Executing

ExecStep ==
    \/ Executed
    \/ \E kind \in BusyKinds : Busy(kind)
    \/ \E kind \in OtherKinds : Errored(kind)

NextExec ==
    \/ \E p \in ExecPaths, t \in Threads : ExecCall(p, t)
    \/ Executed
    \/ \E kind \in BusyKinds : Busy(kind)
    \/ \E kind \in OtherKinds : Errored(kind)

SpecExec == InitExec /\ [][NextExec]_vars

\* a thread inside _exec keeps running: its sleeps are finite and every
\* execute() returns or raises
SpecExecLive == InitExec /\ [][NextExec]_vars /\ WF_vars(ExecStep)

Running == exec.outcome = "running"

\* C27: whenever an operation of the store (get, set, clear or stats) is
\* between the start of its first statement and its return, retry sleeps
\* included, the calling thread holds the store's lock, and the hit/miss
\* counters are read or updated only under the lock
C27_AllUnderLock ==
    /\ Running => exec.holder = exec.thread
    /\ exec.counters # "unlocked"

\* C27, as the code has it: get, set and clear hold the lock from their
\* first statement to their return, retry sleeps included, and get counts
\* under it; stats runs its statement and reads the counters with the lock
\* not taken
C27_AllButStatsUnderLock ==
    /\ Running /\ exec.op # "stats" => exec.holder = exec.thread
    /\ Running /\ exec.op = "stats" => exec.holder = 0
    /\ exec.op = "get" => exec.counters # "unlocked"
    /\ exec.op = "stats" => exec.counters # "locked"
    /\ ~Running => exec.holder = 0

\* a get sleeping before its third attempt, under the lock
C27_Witness ==
    /\ Running /\ exec.op = "get" /\ exec.attempt = 2 /\ exec.slept = 3 * FirstDelay
    /\ exec.holder = Owner

\* stats between two attempts of its statement, the lock free
C27_WitnessStats ==
    /\ Running /\ exec.op = "stats" /\ exec.attempt = 1 /\ exec.holder = 0

RECURSIVE Pow2(_)
Pow2(n) == IF n = 0 THEN 1 ELSE 2 * Pow2(n - 1)

\* C28: inside _exec the attempt number never passes 4 (5 attempts); before
\* attempt n the statement has failed n times busy/locked and _exec has
\* slept 0.05 s, 0.1 s, ... doubling, 0.05 * (2^n - 1) s in all; an error
\* of another kind is never followed by a further attempt; a busy/locked
\* error is raised only from the last attempt; every attempt made after a
\* failure follows a busy/locked one; and an operation under way always
\* comes to return or raise
C28_BusyRetry ==
    /\ [](/\ exec.attempt <= Retries
          /\ Running => /\ exec.delay = FirstDelay * Pow2(exec.attempt)
                        /\ exec.slept = FirstDelay * (Pow2(exec.attempt) - 1)
                        /\ exec.attempt > 0 <=> exec.error \in BusyKinds
                        /\ exec.error \notin OtherKinds
          /\ exec.error \in OtherKinds => exec.outcome = "raised"
          /\ exec.outcome = "raised" /\ exec.error \in BusyKinds =>
                 /\ exec.attempt = Retries
                 /\ exec.slept = FirstDelay * (Pow2(Retries) - 1)
          /\ exec.outcome = "raised" => exec.error # "none"
          /\ exec.outcome = "returned" => exec.error \notin OtherKinds)
    /\ (Running ~> ~Running)

\* a statement raised busy after its fifth attempt and sleeps of 0.05, 0.1,
\* 0.2 and 0.4 s
C28_Witness ==
    /\ exec.outcome = "raised" /\ exec.error = "busy"
    /\ exec.attempt = 4 /\ exec.slept = 15 /\ exec.delay = 16

\* a statement that succeeded on its fifth attempt
C28_WitnessLastTry ==
    /\ exec.outcome = "returned" /\ exec.error = "locked" /\ exec.attempt = 4
    /\ exec.slept = 15

\* another OperationalError raised from the first attempt
C28_WitnessOther ==
    /\ exec.outcome = "raised" /\ exec.error = "operational" /\ exec.attempt = 0
    /\ exec.slept = 0

(***************************************************************************)
(* Expired entries and eviction, over SpecStore: `deadline` holds the      *)
(* expires_at of every stored key.                                         *)
(***************************************************************************)
Kept(dl, k) == dl[k] # NoDeadline
Dropped(k) == Kept(deadline, k) /\ ~Kept(deadline', k)

\* C29: no set removes an entry that has not expired while it leaves an
\* expired entry of another key in the store, on either backend
C29_ExpiredGoFirst ==
    [][\A k, e \in StoreKeys :
          ~(/\ last'.op = "set"
            /\ Dropped(k)
            /\ ~Expired(deadline[k], now)
            /\ e # last'.key
            /\ Kept(deadline', e)
            /\ Expired(deadline'[e], now))]_vars

\* C29, as the code has it: expiry is looked at by get alone and for the
\* key it is given; an entry, expired or not, leaves the store only through
\* clear, through a get of its own key, or as one of the least recently
\* used entries when a set of another key finds the store full
C29_ExpiredLeaveOnOwnGet ==
    [][\A k \in StoreKeys :
          Dropped(k) =>
              \/ last'.op = "clear"
              \/ last'.op = "get" /\ last'.key = k
              \/ /\ last'.op = "set" /\ last'.key # k
                 /\ Cardinality({j \in StoreKeys : Kept(deadline, j)}) = maxsize
                 /\ Cardinality({j \in StoreKeys : Kept(deadline', j)}) = maxsize]_vars

\* a full store after a set, an expired entry of another key still in it
C29_Witness ==
    /\ last.op = "set" /\ maxsize = 2
    /\ last.key \in StoreKeys /\ Kept(deadline, last.key)
    /\ \E e \in StoreKeys \ {last.key} : Kept(deadline, e) /\ Expired(deadline[e], now)

(***************************************************************************)
(* Where returned data comes from. A client is used for its six            *)
(* operations while `origin` follows, for each cache key, the clock        *)
(* reading of the request that brought the data stored under it, and, for  *)
(* the last call, how long before its return that request was made.        *)
(***************************************************************************)
MaxTraced == 4       \* cap on hits + misses of a client whose results are traced

TracedOps == {"list_orgs", "list_workspaces", "list_docs", "list_tables",
              "list_columns", "iter_records"}

\* the ttl a result of the operation is stored with (http.py 154, 182, 227,
\* 253, 291, 380)
OpTtl(op) == IF op = "iter_records" THEN cfg.records_ttl ELSE cfg.metadata_ttl

WorkspacesKey(org_id) == _make_key("list_workspaces", <<org_id>>)

\* the lookup of the operation's own key is a hit
OwnHit(key) == _cache_get(Store, key).ret # PyNone

\* the clock reading of the request behind the result r of the call c: now
\* when the call sent one, else that of the stored list_docs or other entry
\* it returned, or of the stored workspaces list_docs flattened
RequestedAt(c, r, hit) ==
    IF r.sent > 0 THEN now
    ELSE IF c.op = "list_docs" /\ ~hit THEN origin.at[WorkspacesKey(c.args[1])]
    ELSE origin.at[KeyOf(c)]

\* `origin` after the call c came to r
Traced(c, r, hit) ==
    [at |-> IF hit THEN origin.at
            ELSE IF c.op = "list_docs"
            THEN [origin.at EXCEPT ![KeyOf(c)] = RequestedAt(c, r, hit),
                                   ![WorkspacesKey(c.args[1])] =
                                        IF r.sent > 0 THEN now ELSE @]
            ELSE [origin.at EXCEPT ![KeyOf(c)] = now],
     age |-> IF r.outcome = "returned" THEN now - RequestedAt(c, r, hit) ELSE 0]

\* the operation `op(args)` completes as `r`, its lookups within MaxTraced
TracedCompletes(c, r, o) ==
    /\ r.s.hits + r.s.misses <= MaxTraced
    /\ data' = r.s.data
    /\ rows' = r.s.rows
    /\ hits' = r.s.hits
    /\ misses' = r.s.misses
    /\ call' = [op |-> c.op, args |-> c.args, outcome |-> r.outcome, result |-> r.result,
                sent |-> r.sent,
                response |-> IF r.sent = 0 THEN "none"
                             ELSE IF o \in Failures THEN "failure" ELSE "success"]
    /\ origin' = Traced(c, r, OwnHit(KeyOf(c)))
    /\ UNCHANGED <<now, backend, maxsize, last, lru, deadline, cfg, first,
                   derived, inflight, twin, wire, opts, pushed, exec, client,
                   pool>>

TracedListOrgs(o) ==
    TracedCompletes([op |-> "list_orgs", args |-> <<>>], list_orgs(Store, o), o)

TracedListWorkspaces(org_id, o) ==
    TracedCompletes([op |-> "list_workspaces", args |-> <<org_id>>],
                    list_workspaces(Store, org_id, o), o)

TracedListDocs(org_id, ws_id, o) ==
    TracedCompletes([op |-> "list_docs", args |-> <<org_id, ws_id>>],
                    list_docs(Store, org_id, ws_id, o), o)

TracedListTables(doc_id, o) ==
    TracedCompletes([op |-> "list_tables", args |-> <<doc_id>>],
                    list_tables(Store, doc_id, o), o)

TracedListColumns(doc_id, table_id, o) ==
    TracedCompletes([op |-> "list_columns", args |-> <<doc_id, table_id, TRUE>>],
                    list_columns(Store, doc_id, table_id, TRUE, o), o)

TracedIterRecords(doc_id, table_id, o) ==
    TracedCompletes([op |-> "iter_records",
                     args |-> <<doc_id, table_id, TRUE, PyNone, TRUE>>],
                    iter_records(Store, doc_id, table_id, TRUE, PyNone, TRUE, o), o)

\* clients with metadata_ttl = 1 and records_ttl = 2 clock ticks
InitTraced == Built({Setup(b, 2, Cfg(TRUE, 1, 2)) : b \in {"memory", "sqlite"}})

\* the request succeeds with a full body or fails with an HTTP error
TracedAnswers == {"full", "http_error"}

NextTraced ==
    \/ Tick
    \/ \E o \in TracedAnswers : TracedListOrgs(o)
    \/ \E org_id \in OrgIds, o \in TracedAnswers : TracedListWorkspaces(org_id, o)
    \/ \E org_id \in OrgIds, ws_id \in WsIds, o \in TracedAnswers : TracedListDocs(org_id, ws_id, o)
    \/ \E doc_id \in DocIds, o \in TracedAnswers : TracedListTables(doc_id, o)
    \/ \E doc_id \in DocIds, table_id \in TableIds, o \in TracedAnswers :
            TracedListColumns(doc_id, table_id, o)
    \/ \E doc_id \in DocIds, table_id \in TableIds, o \in TracedAnswers :
            TracedIterRecords(doc_id, table_id, o)

SpecTraced == InitTraced /\ [][NextTraced]_vars

ReturnedData == call.op \in TracedOps /\ call.outcome = "returned"

\* C30: whatever a client operation returns was requested from the remote
\* service at most the ttl of its class before the return: metadata_ttl for
\* the list_* operations, records_ttl for iter_records
C30_StalenessBound == ReturnedData => origin.age <= OpTtl(call.op)

\* C30, as the code has it: the bound holds for every operation but
\* list_docs, whose result is stored with a fresh metadata_ttl although it
\* may be flattened from stored workspaces, and so is at most twice
\* metadata_ttl old; a list_docs that outlives metadata_ttl sent no request
C30_StalenessBoundButDocs ==
    /\ ReturnedData /\ call.op # "list_docs" => origin.age <= OpTtl(call.op)
    /\ ReturnedData /\ call.op = "list_docs" =>
          /\ origin.age <= 2 * cfg.metadata_ttl
          /\ origin.age > cfg.metadata_ttl => call.sent = 0

\* list_docs returned, two ticks after the request, what metadata_ttl = 1
\* covers for one
C30_Witness ==
    /\ ReturnedData /\ call.op = "list_docs" /\ call.sent = 0
    /\ cfg.metadata_ttl = 1 /\ origin.age = 2
    /\ call.result # PyList(<<>>)

\* iter_records returned rows as old as records_ttl allows
C30_WitnessRecords ==
    /\ ReturnedData /\ call.op = "iter_records" /\ call.sent = 0
    /\ cfg.records_ttl = 2 /\ cfg.metadata_ttl = 1 /\ origin.age = 2

(***************************************************************************)
(* The recency order of a SQLiteCache, over SpecStore.                     *)
(***************************************************************************)
\* a SQLiteCache set(k, _, _) that writes acts, with the value and ttl that
\* the step records
SqlSetStep(k) ==
    /\ last'.op = "set"
    /\ last'.key = k
    /\ SqlSet(k, last'.value, last'.ttl)

SqlGetStep(k) ==
    /\ last'.op = "get"
    /\ last'.key = k
    /\ SqlGet(k)

RowsOf(r) == {r[i] : i \in 1..Len(r)}
RowOf(r, k) == r[FindRow(r, TextOf(k))]

\* the row a set(k, v, ttl) writes at clock reading t
Written(k, v, ttl, t) ==
    [key_text |-> TextOf(k), expires_at |-> t + ttl, last_access |-> t,
     value_json |-> JsonDumps(v)]

\* what set(k) does to the table: the row of k is the one written, the other
\* rows left are rows that were there, count - maxsize rows are gone and
\* none of them was accessed later than a row that is left
SetWritesAndPrunes(k) ==
    LET new == Written(k, last'.value, last'.ttl, now)
        all == {x \in RowsOf(rows) : x.key_text # new.key_text} \cup {new}
    IN /\ RowsOf(rows') \subseteq all
       /\ Len(rows') = Min(Cardinality(all), maxsize)
       /\ Cardinality(RowsOf(rows')) = Len(rows')
       /\ \A x \in all \ RowsOf(rows'), y \in RowsOf(rows') :
              x.last_access <= y.last_access

\* what a get(k) that returns a value does to the table: last_access of k's
\* row becomes the clock reading, nothing else changes
GetTouches(k) ==
    /\ Len(rows') = Len(rows)
    /\ \A i \in 1..Len(rows) :
          rows'[i] = IF rows[i].key_text = TextOf(k)
                     THEN [rows[i] EXCEPT !.last_access = now] ELSE rows[i]

\* the store holds A and B and the last call, its only get, returned A's
\* value; A was written before B
TouchedOlder ==
    /\ backend = "sqlite" /\ maxsize = 2
    /\ last.op = "get" /\ last.key = KeyA /\ last.hit
    /\ hits + misses = 1
    /\ SqlKeys(rows) = {KeyA, KeyB}
    /\ deadline[KeyA] < deadline[KeyB]

\* C31: a SQLiteCache set writes the row with expires_at = now + ttl and
\* last_access = now and then removes count - maxsize rows, those of the
\* oldest last_access; a get that returns a value sets its row's
\* last_access to now; so with maxsize = 2, A and B stored and A the older,
\* get(A) followed by set(C) removes B and leaves A and C
C31_PersistentLru ==
    [][/\ \A k \in StoreKeys : SqlSetStep(k) => SetWritesAndPrunes(k)
       /\ \A k \in StoreKeys : SqlGetStep(k) /\ last'.hit => GetTouches(k)
       /\ TouchedOlder /\ SqlSetStep(KeyC) => SqlKeys(rows') = {KeyA, KeyC}]_vars

\* C31, as the code has it: the same, but get(A) saves A from the next set
\* for sure only when its clock reading is later than the last_access of B;
\* of rows of equal last_access the one inserted first goes first
C31_PersistentLruByReading ==
    [][/\ \A k \in StoreKeys : SqlSetStep(k) => SetWritesAndPrunes(k)
       /\ \A k \in StoreKeys : SqlGetStep(k) /\ last'.hit => GetTouches(k)
       /\ TouchedOlder /\ SqlSetStep(KeyC) =>
             SqlKeys(rows') =
                IF \/ RowOf(rows, KeyB).last_access < RowOf(rows, KeyA).last_access
                   \/ FindRow(rows, TextOf(KeyB)) < FindRow(rows, TextOf(KeyA))
                THEN {KeyA, KeyC} ELSE {KeyB, KeyC}]_vars

\* get(A) touched A after B's last access and set(C) then removed B
C31_Witness ==
    /\ backend = "sqlite" /\ maxsize = 2
    /\ hits = 1
    /\ last.op = "set" /\ last.key = KeyC
    /\ SqlKeys(rows) = {KeyA, KeyC}
    /\ RowOf(rows, KeyA).last_access < RowOf(rows, KeyC).last_access
    /\ RowOf(rows, KeyA).expires_at = RowOf(rows, KeyA).last_access

\* get(A) touched A at the reading of B's last access and set(C) then
\* removed A
C31_WitnessTie ==
    /\ backend = "sqlite" /\ maxsize = 2
    /\ hits = 1
    /\ last.op = "set" /\ last.key = KeyC
    /\ SqlKeys(rows) = {KeyB, KeyC}
    /\ RowOf(rows, KeyB).last_access = RowOf(rows, KeyC).last_access
    /\ now = 1

(***************************************************************************)
(* A SQLiteCache opened on a file that an earlier instance left behind.    *)
(* Init is the file before the constructor runs: up to three rows, one per *)
(* key, as set and get write them (last_access <= expires_at, a value text *)
(* that decodes). `last.op` is "init" until an instance exists.            *)
(***************************************************************************)
FileValue(k) == IF k = KeyA THEN PyList(<<>>) ELSE IF k = KeyB THEN PyInt(1)
                ELSE PyList(<<PyInt(1)>>)
FileStamps == {<<0, 0>>, <<1, 0>>, <<1, 1>>, <<3, 0>>, <<3, 1>>}
FileRows ==
    {[key_text |-> TextOf(k), expires_at |-> st[1], last_access |-> st[2],
      value_json |-> JsonDumps(FileValue(k))] : k \in StoreKeys, st \in FileStamps}
FileTables ==
    {r \in UNION {[1..n -> FileRows] : n \in 0..3} :
        \A i, j \in 1..Len(r) : r[i].key_text = r[j].key_text => i = j}

\* DELETE FROM cache WHERE expires_at < ? (cache.py 181)
PurgeExpired(r, t) == SelectSeq(r, LAMBDA x : ~Expired(x.expires_at, t))

\* _init_schema on the table r at clock reading t, and a variant that does
\* not delete the expired rows
_init_schema_NoPurge(r, t, size) == _prune_if_needed(r, size)
_init_schema(r, t, size) == _prune_if_needed(PurgeExpired(r, t), size)

\* the keys of the table r, least recently accessed first
KeyOfText(text) == CHOOSE k \in StoreKeys : TextOf(k) = text
ByAccess(r) ==
    [i \in 1..Len(r) |->
        KeyOfText(r[CHOOSE j \in OldestRows(r, i) \ OldestRows(r, i - 1) : TRUE].key_text)]

InitReopen ==
    /\ now = 0
    /\ backend = "sqlite"
    /\ maxsize \in Maxsizes
    /\ data = <<>>
    /\ rows \in FileTables
    /\ hits = 0
    /\ misses = 0
    /\ last = NoOp
    /\ lru = <<>>
    /\ deadline = [k \in StoreKeys |-> NoDeadline]
    /\ cfg = CacheConfig
    /\ call = NoCall
    /\ first = NoFetch
    /\ derived = NoKeys
    /\ inflight = NoSet
    /\ twin = NoTwin
    /\ Idle

\* an instance exists: the last construction completed
Opened == last.op # "init" /\ last.exc = "none"

\* the table after the constructor ran: SQLiteCache(path, maxsize), counters
\* at 0 (cache.py 98-119, 168-182)
OpenedAs(r) ==
    /\ rows' = r
    /\ hits' = 0
    /\ misses' = 0
    /\ lru' = ByAccess(r)
    /\ deadline' = [k \in StoreKeys |->
                        IF k \in SqlKeys(r) THEN RowOf(r, k).expires_at ELSE NoDeadline]
    /\ last' = [NoOp EXCEPT !.op = "open"]
    /\ UNCHANGED <<now, backend, maxsize, data, clientVars, auxVars>>

Open == OpenedAs(_init_schema(rows, now, maxsize))

\* the constructor raises sqlite3.Error: from connect or a PRAGMA or the
\* DELETE (file as it was) or from the statements of the prune (expired rows
\* deleted)
OpenFails(stage) ==
    /\ rows' = IF stage = "prune" THEN PurgeExpired(rows, now) ELSE rows
    /\ hits' = 0
    /\ misses' = 0
    /\ lru' = <<>>
    /\ deadline' = [k \in StoreKeys |-> NoDeadline]
    /\ last' = [NoOp EXCEPT !.op = "open", !.exc = "Error"]
    /\ UNCHANGED <<now, backend, maxsize, data, clientVars, auxVars>>

NextReopen ==
    \/ Tick
    \/ Open
    \/ \E stage \in {"connect", "prune"} : OpenFails(stage)
    \/ \E k \in StoreKeys : Opened /\ SqlGet(k)

SpecReopen == InitReopen /\ [][NextReopen]_vars

OpenStep == last'.op = "open" /\ last'.exc = "none" /\ Open

Live(r, t) == {x \in RowsOf(r) : ~Expired(x.expires_at, t)}

\* C32: when the constructor completes on an existing file, no row is left
\* whose expires_at is earlier than the opening time and at most maxsize
\* rows are left; each row left is a row of the file, unchanged; of the
\* unexpired rows as many as fit stay, and none that was removed was
\* accessed later than one that stays; a get of a row that is stored and
\* not expired returns the value its text decodes to
C32_Reopen ==
    [][/\ OpenStep =>
            /\ \A x \in RowsOf(rows') : ~(x.expires_at < now)
            /\ Len(rows') <= maxsize
            /\ RowsOf(rows') \subseteq Live(rows, now)
            /\ Len(rows') = Min(Cardinality(Live(rows, now)), maxsize)
            /\ Cardinality(RowsOf(rows')) = Len(rows')
            /\ \A x \in Live(rows, now) \ RowsOf(rows'), y \in RowsOf(rows') :
                   x.last_access <= y.last_access
            /\ hits' = 0 /\ misses' = 0
       /\ \A k \in StoreKeys :
            (/\ Opened /\ SqlGetStep(k)
             /\ k \in SqlKeys(rows) /\ ~Expired(RowOf(rows, k).expires_at, now)) =>
                /\ last'.hit
                /\ last'.ret = JsonLoads(RowOf(rows, k).value_json).val
                /\ last'.ret = JsonNative(FileValue(k))]_vars

\* opened with maxsize 1: the one row left expires at the clock reading 1,
\* at which a get returned it
C32_Witness ==
    /\ backend = "sqlite" /\ maxsize = 1 /\ now = 1
    /\ last.op = "get" /\ last.hit /\ last.key = KeyB
    /\ Len(rows) = 1
    /\ rows[1].expires_at = 1

\* the constructor has left two of three unexpired rows
C32_WitnessPruned ==
    /\ last.op = "open" /\ last.exc = "none" /\ maxsize = 2 /\ now = 1
    /\ Len(rows) = 2
    /\ \A i \in 1..2 : rows[i].last_access = 1 /\ rows[i].expires_at = 3

(***************************************************************************)
(* Storage failures inside get, set and clear, over SpecExec.              *)
(***************************************************************************)
\* a statement of get, set or clear raises out of _exec
Raises ==
    /\ exec.outcome = "running" /\ exec'.outcome = "raised"
    /\ exec.op \in {"get", "set", "clear"}

\* C34: when a statement of SQLiteCache.get, set or clear raises, after a
\* fatal error or a busy/locked error of the last attempt, the call ends
\* with the lock free and no statement or failure of the call has changed
\* hits or misses; the lock is free whenever no call is under way, so the
\* next call of any thread takes it
C34_LockReleasedOnFailure ==
    [][/\ Raises => exec'.holder = 0 /\ exec'.error # "none"
       /\ exec'.outcome \in {"running", "raised"} => hits' = hits /\ misses' = misses
       /\ ~Running => exec.holder = 0
       /\ (~Running /\ exec'.outcome = "running" /\ exec'.op # "stats") =>
              exec'.holder = exec'.thread]_vars

\* the DELETE of a get that found an expired row was busy five times: the
\* get raised after both of its statements, counters as they were
C34_Witness ==
    /\ exec.outcome = "raised" /\ exec.op = "get" /\ exec.path = "expired"
    /\ exec.left = 1 /\ exec.error = "busy" /\ exec.attempt = Retries
    /\ exec.holder = 0 /\ hits = 0 /\ misses = 0

\* after a get that counted a miss, a set of the other thread raised and
\* left the lock free
C34_WitnessOtherThread ==
    /\ exec.outcome = "raised" /\ exec.op = "set" /\ exec.thread # Owner
    /\ exec.holder = 0 /\ misses = 1

(***************************************************************************)
(* Threads sharing one client with a MemoryCache (http.py 145-155,         *)
(* 348-382; cache.py 43-77). Each thread makes one call of the same        *)
(* operation with the same arguments. threading.Lock is taken by           *)
(* `with self._lock:` inside the store's get and set and nowhere else; the *)
(* clock is read before the lock is asked for (cache.py 44, 62).           *)
(*   pool.lock     the thread inside a `with self._lock:` block, 0 if none *)
(*   pool.op       the operation the threads call                          *)
(*   pool.th[t].pc idle, get (waiting for the lock in cache.get), in_get,  *)
(*                 request (session.get under way), set, in_set, done,     *)
(*                 raised                                                  *)
(*   .at           the thread's last clock reading                         *)
(*   .got          what the thread decoded from its response               *)
(*   .result, .hit what its call returned, and whether from the store      *)
(***************************************************************************)
PoolOps == {"list_orgs", "iter_records"}

PoolKey ==
    IF pool.op = "list_orgs" THEN _make_key("list_orgs", <<>>)
    ELSE RecordsKey(PyStr("D1"), PyStr("T1"), PyNone)

PoolTtl == IF pool.op = "list_orgs" THEN cfg.metadata_ttl ELSE cfg.records_ttl

\* data = response.json() (http.py 153), rows built from the records
\* (http.py 363-375)
PoolDecoded(o) ==
    IF pool.op = "list_orgs" THEN OrgsBody(o)
    ELSE RecordRows(RecordsBody(o, TRUE), TRUE)

\* Variant: the lock stays with the thread after a miss
AfterGet_HeldOnMiss(t, hit) == IF hit THEN 0 ELSE t

\* who holds the lock once the `with self._lock:` block of get is left
\* (cache.py 45-57): nobody, on every return
AfterGet(t, hit) == 0

Pooling == UNCHANGED <<now, backend, maxsize, rows, last, lru, deadline, clientVars,
                       derived, inflight, twin, wire, opts, pushed, exec, client,
                       origin>>

\* thread t calls the operation: key = self._make_key(...), then
\* self._cache_get(key) -> MemoryCache.get reads the clock (cache.py 44)
PoolCall(t, op) ==
    /\ pool.th[t].pc = "idle"
    /\ pool.op \in {"none", op}
    /\ pool' = [pool EXCEPT !.op = op, !.th[t].pc = "get", !.th[t].at = now]
    /\ UNCHANGED <<data, hits, misses>>
    /\ Pooling

\* `with self._lock:` of get or set is entered (cache.py 45, 73)
PoolLock(t) ==
    /\ pool.th[t].pc \in {"get", "set"}
    /\ pool.lock = 0
    /\ pool' = [pool EXCEPT !.lock = t,
                            !.th[t].pc = IF @ = "get" THEN "in_get" ELSE "in_set"]
    /\ UNCHANGED <<data, hits, misses>>
    /\ Pooling

\* the locked part of get runs and the block is left; a hit is returned by the
\* operation (http.py 147-148, 350-354), a miss goes on to the request
PoolGot(t, g) ==
    /\ data' = g.data
    /\ hits' = IF g.hit THEN hits + 1 ELSE hits
    /\ misses' = IF g.hit THEN misses ELSE misses + 1
    /\ pool' = [pool EXCEPT !.lock = AfterGet(t, g.hit),
                            !.th[t].pc = IF g.hit THEN "done" ELSE "request",
                            !.th[t].hit = g.hit,
                            !.th[t].result = g.ret]

PoolGet(t) ==
    /\ pool.th[t].pc = "in_get"
    /\ PoolGot(t, MemoryCache_get(data, PoolKey, pool.th[t].at))
    /\ Pooling

\* the request of thread t ends with o: a failure raises (http.py 151-152,
\* 356-361), a success is decoded and _cache_set -> MemoryCache.set reads the
\* clock (cache.py 62)
PoolAnswer(t, o) ==
    /\ pool.th[t].pc = "request"
    /\ pool' = IF o \in Failures THEN [pool EXCEPT !.th[t].pc = "raised"]
               ELSE [pool EXCEPT !.th[t].pc = "set", !.th[t].at = now,
                                 !.th[t].got = PoolDecoded(o)]
    /\ UNCHANGED <<data, hits, misses>>
    /\ Pooling

\* the locked part of set runs, the block is left and the operation returns
\* what it decoded (http.py 154-155, 378-382)
PoolSet(t) ==
    /\ pool.th[t].pc = "in_set"
    /\ data' = MemoryCache_set(data, PoolKey, pool.th[t].got,
                               pool.th[t].at + PoolTtl, maxsize)
    /\ pool' = [pool EXCEPT !.lock = 0, !.th[t].pc = "done",
                            !.th[t].result = pool.th[t].got]
    /\ UNCHANGED <<hits, misses>>
    /\ Pooling

InitPool == Built({Setup("memory", size, Cfg(TRUE, 1, 1)) : size \in {1, 2}})

NextPool ==
    \/ Tick
    \/ \E t \in Threads, op \in PoolOps : PoolCall(t, op)
    \/ \E t \in Threads : PoolLock(t)
    \/ \E t \in Threads : PoolGet(t)
    \/ \E t \in Threads, o \in Outcomes : PoolAnswer(t, o)
    \/ \E t \in Threads : PoolSet(t)

SpecPool == InitPool /\ [][NextPool]_vars

InLock(t) == pool.th[t].pc \in {"in_get", "in_set"}

\* C33: no thread performs the HTTP request of a cache-miss fetch while holding
\* the store's lock: the lock is held only inside the store's own get and set,
\* so while a thread's request is under way (or has failed) the lock is free
\* for any other thread that waits for it.
C33_NoRequestUnderLock ==
    /\ \A t \in Threads : pool.lock = t <=> InLock(t)
    /\ \A t \in Threads :
        pool.th[t].pc \in {"request", "raised"} =>
            /\ pool.lock # t
            /\ \A u \in Threads \ {t} :
                pool.th[u].pc \in {"get", "set"} => pool.lock = 0

\* thread 1's request is under way and thread 2 is inside the store's get
C33_Witness ==
    /\ pool.th[1].pc = "request"
    /\ pool.th[2].pc = "in_get"
    /\ pool.lock = 2

\* thread 1's request failed and thread 2 is inside the store's set
C33_WitnessFailed ==
    /\ pool.th[1].pc = "raised"
    /\ pool.th[2].pc = "in_set"
    /\ pool.lock = 2

AllReturned == \A t \in Threads : pool.th[t].pc = "done"

\* the threads whose call fetched its result over HTTP
Fetchers == {t \in Threads : pool.th[t].pc = "done" /\ ~pool.th[t].hit}

\* C35: threads calling the same operation with the same arguments on a cold
\* cache may each send a request; once all calls have returned the store holds
\* exactly one entry for the key, its value is what one of the calls decoded,
\* and every caller got the whole result of its own fetch or, on a hit, of
\* another call's fetch.
C35_ConcurrentMisses ==
    AllReturned =>
        /\ Len(data) = 1
        /\ data[1].key = PoolKey
        /\ \E t \in Fetchers : data[1].value = pool.th[t].got
        /\ \A t \in Threads :
            IF pool.th[t].hit
            THEN \E u \in Fetchers \ {t} : pool.th[t].result = pool.th[u].got
            ELSE pool.th[t].result = pool.th[t].got

\* both threads missed and fetched different results, each got its own, and the
\* store holds thread 2's
C35_Witness ==
    /\ AllReturned
    /\ Fetchers = Threads
    /\ pool.th[1].got # pool.th[2].got
    /\ data[1].value = pool.th[2].got
    /\ hits = 0
    /\ misses = 2

\* thread 2 was served thread 1's result from the store
C35_WitnessHit ==
    /\ AllReturned
    /\ pool.th[2].hit
    /\ pool.th[2].result = pool.th[1].got
    /\ pool.op = "iter_records"

(***************************************************************************)
(* The counters of both stores (cache.py 47, 53, 56, 197, 203, 217, 219):  *)
(* get, set, clear and stats on two keys, more than one get on a           *)
(* SQLiteCache, and rows whose text does not decode.                       *)
(***************************************************************************)
CountKeys == {KeyA, KeyB}

NextCount ==
    \/ Tick
    \/ \E k \in CountKeys, at \in 0..MaxTime : MemGet(k, at)
    \/ \E k \in CountKeys : SqlGetWithin(k, MaxGets + 1)
    \/ \E k \in CountKeys, ttl \in Ttls : SetNoTtl(k, ttl)
    \/ \E k \in CountKeys, at \in 0..MaxTime : MemSet(k, PyList(<<>>), 1, at)
    \/ \E k \in CountKeys : SqlSet(k, PyList(<<>>), 1)
    \/ \E k \in CountKeys : Corrupt(k)
    \/ MemClear
    \/ SqlClear
    \/ MemStats
    \/ SqlStats

SpecCount == InitStore /\ [][NextCount]_vars

\* the step is a get(k) that returns, on either backend
GetCompletes(k) ==
    /\ last'.op = "get"
    /\ last'.key = k
    /\ \/ \E at \in Readings : MemGet(k, at)
       \/ SqlGetWithin(k, MaxGets + 1)

\* the unexpired row stored under k holds text that does not decode
Undecodable(k) == backend = "sqlite" /\ CorruptRows(k) # {}

\* C36: in both backends every get that completes adds one to exactly one of
\* hits and misses: to misses when the key is absent, expired or undecodable,
\* to hits exactly when a value is returned. No other call changes them but
\* MemoryCache.clear, which resets both, so hits + misses is the number of gets
\* completed since the counters were last reset.
C36_HitMissAccounting ==
    [][/\ \A k \in StoreKeys :
            GetCompletes(k) =>
                /\ \/ hits' = hits + 1 /\ misses' = misses
                   \/ hits' = hits /\ misses' = misses + 1
                /\ misses' = misses + 1 <=>
                        \/ last'.age \in {"absent", "expired"}
                        \/ Undecodable(k)
                /\ hits' = hits + 1 <=> (last'.hit /\ last'.ret # PyNone)
       /\ (~(\E k \in StoreKeys : GetCompletes(k)) /\ ~MemClear) =>
            UNCHANGED <<hits, misses>>
       /\ MemClear => (hits' = 0 /\ misses' = 0)
      ]_vars

\* a SQLiteCache after a hit and a miss on an undecodable row
C36_Witness ==
    /\ backend = "sqlite"
    /\ hits = 1
    /\ misses = 1
    /\ last.op = "get"
    /\ last.age = "fresh"
    /\ ~last.hit

\* a MemoryCache whose get found its entry expired, after a set and a stats
C36_WitnessMemory ==
    /\ backend = "memory"
    /\ last.op = "get"
    /\ last.age = "expired"
    /\ misses = 1
    /\ hits = 0

\* the entries of a MemoryCache, whatever their order
Entries(d) == {d[i] : i \in 1..Len(d)}

\* the rows of a SQLiteCache without their last_access
Lifetimes(r) ==
    [i \in 1..Len(r) |-> [key_text |-> r[i].key_text, value_json |-> r[i].value_json,
                          expires_at |-> r[i].expires_at]]

\* C37: on either backend a get(k) that hits changes only k's recency and the
\* hit counter: the value and expires_at of k's entry and of every other entry
\* stay as they were, so k's entry still expires ttl after its last set however
\* often it is read.
C37_ReadsKeepLifetime ==
    [][\A k \in StoreKeys :
        (GetCompletes(k) /\ last'.hit) =>
            /\ misses' = misses
            /\ backend = "memory" =>
                /\ Entries(data') = Entries(data)
                /\ Len(data') = Len(data)
                /\ data'[Find(data', k)].expires_at = deadline[k]
            /\ backend = "sqlite" =>
                /\ Lifetimes(rows') = Lifetimes(rows)
                /\ \A i \in 1..Len(rows) :
                    rows[i].key_text # TextOf(k) => rows'[i] = rows[i]
                /\ rows'[FindRow(rows', TextOf(k))].expires_at = deadline[k]]_vars

\* a SQLiteCache row read twice, the second time at its expires_at, with another
\* row stored
C37_Witness ==
    /\ backend = "sqlite"
    /\ hits = 2
    /\ last.op = "get"
    /\ last.hit
    /\ last.age = "due"
    /\ Len(rows) = 2

\* a SQLiteCache row was read and, once its expires_at had passed, was found
\* expired by the next get
C37_WitnessExpires ==
    /\ backend = "sqlite"
    /\ maxsize = 1
    /\ hits = 1
    /\ misses = 1
    /\ last.op = "get"
    /\ last.age = "expired"

\* a MemoryCache entry read at its expires_at, with another entry stored
C37_WitnessMemory ==
    /\ backend = "memory"
    /\ hits = 1
    /\ last.op = "get"
    /\ last.hit
    /\ last.age = "due"
    /\ Len(data) = 2

(***************************************************************************)
(* What a store holds under each key (SpecStore).                          *)
(***************************************************************************)
StoredKeys(d, r) == IF backend = "memory" THEN MemKeys(d) ELSE SqlKeys(r)

\* the value a get(k) gives back from the entry stored under k: the stored
\* object (cache.py 57), json.loads of the row's text (cache.py 210)
Held(d, r, k) ==
    IF backend = "memory" THEN d[Find(d, k)].value
    ELSE JsonLoads(r[FindRow(r, TextOf(k))].value_json).val

\* the step is a set(k, v, ttl > 0) that writes, or one that json.dumps stops
StoringSet(k) == MemSetStep(k) \/ SqlSetStep(k)
SkippedSet(k) ==
    /\ last'.op = "set"
    /\ last'.key = k
    /\ SetNotSerializable(k, last'.value, last'.ttl)

\* the step is a get(k) that returns a value
GetReturns(k) ==
    /\ last'.ret # PyNone
    /\ (\E at \in Readings : MemGetStep(k, at)) \/ SqlGetStep(k)

\* a get(k) that returns a value returns the one held under k, by an entry
\* that is stored (not cleared or evicted since it was set) and not expired at
\* the get's reading
ReturnsOwn(k) ==
    GetReturns(k) =>
        /\ k \in StoredKeys(data, rows)
        /\ k \in Range(lru)
        /\ last'.ret = Held(data, rows, k)
        /\ last'.age \in {"fresh", "due"}

\* a step that is no writing set(k) leaves what k holds, or removes k's entry
OnlySetWrites(k) ==
    (~StoringSet(k) /\ k \in StoredKeys(data', rows')) =>
        /\ k \in StoredKeys(data, rows)
        /\ Held(data', rows', k) = Held(data, rows, k)

\* C38 as claimed: on either backend a get(k) that returns a value returns the
\* value passed to the most recent set(k, v, ttl > 0), whose entry has not been
\* cleared, evicted or expired since, and never a value stored under another
\* key: after every set(k, v, ttl > 0) k holds v if it holds anything, and no
\* other step changes what a key holds.
C38_CacheIntegrity ==
    [][\A k \in StoreKeys :
        /\ ReturnsOwn(k)
        /\ (StoringSet(k) \/ SkippedSet(k)) =>
              (k \in StoredKeys(data', rows') => Held(data', rows', k) = last'.value)
        /\ ~(StoringSet(k) \/ SkippedSet(k)) =>
              (k \in StoredKeys(data', rows') =>
                    /\ k \in StoredKeys(data, rows)
                    /\ Held(data', rows', k) = Held(data, rows, k))]_vars

\* C38 amended: a get(k) that returns a value returns what the most recent
\* set(k, v, ttl > 0) with a v json can encode stored under k, the entry not
\* cleared, evicted or expired since: v itself from MemoryCache, v decoded from
\* its JSON text from SQLiteCache (a tuple comes back as a list). A set whose v
\* json cannot encode, like every step that is no writing set(k), leaves what
\* k holds.
C38_CacheIntegrityStored ==
    [][\A k \in StoreKeys :
        /\ ReturnsOwn(k)
        /\ StoringSet(k) =>
              (k \in StoredKeys(data', rows') =>
                    Held(data', rows', k) = IF backend = "memory" THEN last'.value
                                            ELSE JsonNative(last'.value))
        /\ OnlySetWrites(k)]_vars

\* a MemoryCache get returned the tuple set under its key while another key
\* holds a list
C38_Witness ==
    /\ backend = "memory"
    /\ last.op = "get"
    /\ last.hit
    /\ last.ret = PyTuple(<<>>)
    /\ Len(data) = 2
    /\ \E i \in 1..2 : data[i].key # last.key /\ data[i].value = PyList(<<>>)

\* a SQLiteCache get returned its key's value with two rows stored, after the
\* clock advanced
C38_WitnessSqlite ==
    /\ backend = "sqlite"
    /\ last.op = "get"
    /\ last.hit
    /\ last.age = "due"
    /\ Len(rows) = 2

(***************************************************************************)
(* Two SQLiteCache instances opened on one file (cache.py 98-119,          *)
(* 188-249). `rows` is the file's table; each instance has its own         *)
(* maxsize and counters (self._maxsize, self._hits, self._misses,          *)
(* cache.py 102-105): maxsize, hits and misses are instance 1's, twin      *)
(* holds instance 2's, whether it has been constructed, and the instance   *)
(* that made the last call. Every statement runs in its own transaction    *)
(* (isolation_level=None); the calls are taken one after the other.        *)
(***************************************************************************)
Instances == {1, 2}
SharedSizes == {1, 2}
SharedKeys == {KeyA, KeyB}
SharedValues == {PyTuple(<<>>)}
SharedTtls == {0, 1}

\* Variant: the counters belong to the class, not to the instance
CountsOn_First(i) == 1

\* the instance whose _hits or _misses a get through instance i increments
\* (self._hits += 1, self._misses += 1)
CountsOn(i) == i

InitShared ==
    /\ now = 0
    /\ backend = "sqlite"
    /\ maxsize \in SharedSizes
    /\ data = <<>>
    /\ rows = <<>>
    /\ hits = 0
    /\ misses = 0
    /\ last = NoOp
    /\ lru = <<>>
    /\ deadline = [k \in StoreKeys |-> NoDeadline]
    /\ cfg = CacheConfig
    /\ call = NoCall
    /\ first = NoFetch
    /\ derived = NoKeys
    /\ inflight = NoSet
    /\ twin \in {[hits |-> 0, misses |-> 0, ret |-> PyNone, open |-> FALSE,
                  maxsize |-> size, by |-> 0] : size \in SharedSizes}
    /\ Idle

Sharing == UNCHANGED <<now, backend, maxsize, data, lru, deadline, clientVars, derived,
                       inflight, sideVars>>

IsOpen(i) == i = 1 \/ twin.open
SizeOf(i) == IF i = 1 THEN maxsize ELSE twin.maxsize
SharedGets == hits + misses + twin.hits + twin.misses

\* instance 2 is constructed on the file instance 1 uses: its counters start
\* at 0 and _init_schema purges and prunes with its maxsize
SharedOpen ==
    /\ ~twin.open
    /\ rows' = _init_schema(rows, now, twin.maxsize)
    /\ twin' = [twin EXCEPT !.open = TRUE, !.by = 2, !.ret = PyNone]
    /\ last' = [NoOp EXCEPT !.op = "open"]
    /\ UNCHANGED <<hits, misses>>
    /\ Sharing

\* get(k) through instance i came to g
SharedGot(i, k, g) ==
    /\ rows' = g.rows
    /\ hits' = IF CountsOn(i) = 1 /\ g.hit THEN hits + 1 ELSE hits
    /\ misses' = IF CountsOn(i) = 1 /\ ~g.hit THEN misses + 1 ELSE misses
    /\ twin' = [twin EXCEPT
                  !.hits = IF CountsOn(i) = 2 /\ g.hit THEN @ + 1 ELSE @,
                  !.misses = IF CountsOn(i) = 2 /\ ~g.hit THEN @ + 1 ELSE @,
                  !.ret = IF i = 2 THEN g.ret ELSE PyNone,
                  !.by = i]
    /\ last' = [NoOp EXCEPT !.op = "get", !.key = k, !.ret = g.ret, !.hit = g.hit,
                            !.age = Age(SqlExps(rows, k), now)]

SharedGet(i, k) ==
    /\ IsOpen(i)
    /\ SharedGets < MaxLookups
    /\ SharedGot(i, k, SQLiteCache_get(rows, k, now))
    /\ Sharing

\* set(k, v, ttl) through instance i, with its early returns
SharedSet(i, k, v, ttl) ==
    /\ IsOpen(i)
    /\ rows' = IF TtlCaches(ttl) /\ Serializable(v)
               THEN SQLiteCache_set(rows, k, v, now, ttl, SizeOf(i)) ELSE rows
    /\ twin' = [twin EXCEPT !.by = i, !.ret = PyNone]
    /\ last' = [NoOp EXCEPT !.op = "set", !.key = k, !.value = v, !.ttl = ttl,
                            !.until = now + ttl]
    /\ UNCHANGED <<hits, misses>>
    /\ Sharing

\* clear() through instance i: DELETE FROM cache
SharedClear(i) ==
    /\ IsOpen(i)
    /\ rows' = <<>>
    /\ twin' = [twin EXCEPT !.by = i, !.ret = PyNone]
    /\ last' = [NoOp EXCEPT !.op = "clear"]
    /\ UNCHANGED <<hits, misses>>
    /\ Sharing

NextShared ==
    \/ Tick
    \/ SharedOpen
    \/ \E i \in Instances, k \in SharedKeys : SharedGet(i, k)
    \/ \E i \in Instances, k \in SharedKeys, v \in SharedValues, ttl \in SharedTtls :
            SharedSet(i, k, v, ttl)
    \/ \E i \in Instances : SharedClear(i)

SpecShared == InitShared /\ [][NextShared]_vars

\* the counters of instance i
HitsOf(i, h, tw) == IF i = 1 THEN h ELSE tw.hits
MissesOf(i, m, tw) == IF i = 1 THEN m ELSE tw.misses

\* the step is a get(k) through instance i
SharedGetStep(i, k) == last'.op = "get" /\ last'.key = k /\ twin'.by = i /\ SharedGet(i, k)

\* the last call was a set(k, v, ttl > 0) of an encodable v through instance i
\* whose entry is not past its expires_at
SetThrough(i, k) ==
    /\ last.op = "set"
    /\ last.key = k
    /\ twin.by = i
    /\ TtlCaches(last.ttl)
    /\ Serializable(last.value)
    /\ now <= last.until

\* the step is a set(k, v, ttl > 0) of an encodable v through instance i
SharedSetStep(i, k) ==
    /\ last'.op = "set"
    /\ last'.key = k
    /\ twin'.by = i
    /\ TtlCaches(last'.ttl)
    /\ Serializable(last'.value)
    /\ SharedSet(i, k, last'.value, last'.ttl)

\* every row stored under another key was last accessed before the clock
\* reading `t`
OthersOlder(r, k, t) ==
    \A n \in 1..Len(r) : r[n].key_text # TextOf(k) => r[n].last_access < t

C39_WitnessBack ==
    /\ last.op = "get"
    /\ last.hit
    /\ twin.by = 1
    /\ twin.maxsize = 1
    /\ maxsize = 2
    /\ hits = 1
    /\ twin.hits + twin.misses = 1
    /\ Len(rows) = 1


====
